---- MODULE Spec2Model ----
(***************************************************************************)
(* A model of the retrieval-augmented chat back end:                       *)
(*   - the streaming orchestrator (AIService.chatStream, driven by         *)
(*     ChatController.chat and LangchainService.generateResponseStream),   *)
(*   - the context assembler (ContextRagFactory.buildContext),             *)
(*   - the vector store (PostgresVectorService).                           *)
(* Texts are sequences of characters, so that string concatenation is \o.  *)
(***************************************************************************)
EXTENDS Integers, Sequences, FiniteSets, TLC

(***************************************************************************)
(* Bounds                                                                  *)
(***************************************************************************)
MaxChunks == 2

\* two requests, so that every interleaving of concurrent requests is covered
Requests == {1, 2}

\* contents a chunk of the model's stream can carry; <<>> is the empty string
ChunkContents == {<<>>, <<"a">>, <<"b">>}

\* userId and childId of the two requests (0: no child given)
RequestArgs == <<[userId |-> 1, childId |-> 1], [userId |-> 2, childId |-> 0]>>

(***************************************************************************)
(* State of the streaming orchestrator, one entry per request              *)
(***************************************************************************)
VARIABLES
  pc,            \* position of the request in chatStream
  modelChunks,   \* chunks the model's stream has yielded so far
  fullResponse,  \* the accumulator of chatStream
  emitted,       \* values passed to subject.next, in order
  subjectStopped,\* subject.complete() was called
  ctrlSub,       \* the controller's subscription to the subject is open
  streamSub,     \* chatStream's subscription to the provider stream is open
  delivered,     \* events written to the response (res.write)
  resEnded,      \* res.end() was called
  closedAt,      \* position of the request when req 'close' fired, or "none"
  chatHistory    \* rows of the chat_history table, in insertion order

streamVars == <<pc, modelChunks, fullResponse, emitted, subjectStopped, ctrlSub,
                streamSub, delivered, resEnded, closedAt, chatHistory>>

(***************************************************************************)
(* State of the vector store (text_chunks) and of its callers              *)
(***************************************************************************)
VARIABLES
  store,        \* committed rows of text_chunks
  chunkSeq,     \* last value of the id sequence of text_chunks
  searchCall,   \* arguments and outcome of the last searchSimilarTextChunks
  batchPc,      \* position of the addTextChunks call
  batchChunks,  \* its argument
  batchTx,      \* rows inserted in its open transaction, not yet committed
  batchRows,    \* rows its INSERT statements have created
  batchResult   \* "none", "ok" (returned a count) or "error" (threw)

vectorVars == <<store, chunkSeq, searchCall, batchPc, batchChunks, batchTx,
                batchRows, batchResult>>

(***************************************************************************)
(* State of one buildContext call                                          *)
(***************************************************************************)
VARIABLES
  ctxPc,     \* position of the call
  ctxArgs,   \* its arguments
  ctx,       \* the context object it builds
  ctxHits,   \* vectorResults, the rows the vector search returned
  ctxTrace   \* which collaborator calls returned and which threw

contextVars == <<ctxPc, ctxArgs, ctx, ctxHits, ctxTrace>>

(***************************************************************************)
(* State of the provider clients: one call of EmbeddingService and one     *)
(* call of SiliconFlowChat._callApiWithRetry                               *)
(***************************************************************************)
VARIABLES
  embCall,   \* the call of generateEmbedding / generateEmbeddings
  embReq,    \* one embedText per text of the call
  apiCall    \* the call of _callApiWithRetry

providerVars == <<embCall, embReq, apiCall>>

(***************************************************************************)
(* State of the calls of PreprocessingService                              *)
(***************************************************************************)
VARIABLES
  proc,      \* per caller: the entry point it runs and its position in it
  recordRows \* rows of the records table

preprocessVars == <<proc, recordRows>>

(***************************************************************************)
(* State of the answer pipeline of AIService (chat and the completion of   *)
(* chatStream), of the safety checkers and of the feedback requests        *)
(***************************************************************************)
VARIABLES
  chk,       \* the last call of AllergyChecker.check / MedicalChecker.check
  ans,       \* the call of AIService.chat or the completing chatStream
  fbCall,    \* the last saveFeedback request and its outcome
  childRows  \* rows of the children table

answerVars == <<chk, ans, fbCall, childRows>>

(***************************************************************************)
(* State of the age helpers of the context factories                       *)
(***************************************************************************)
VARIABLES
  ageCall    \* the last call of calculateAgeInMonths or
             \* getAgeSpecificDevelopmentInfo and its result

ageVars == <<ageCall>>

(***************************************************************************)
(* State of one SiliconFlowChat._streamResponseChunks call                 *)
(***************************************************************************)
VARIABLES
  gen        \* position of the generator, accumulatedText and the chunks
             \* it has yielded

genVars == <<gen>>

vars ==
  <<streamVars, vectorVars, contextVars, providerVars, preprocessVars,
    answerVars, ageVars, genVars>>

nonStreamVars ==
  <<vectorVars, contextVars, providerVars, preprocessVars, answerVars,
    ageVars, genVars>>

nonVectorVars ==
  <<streamVars, contextVars, providerVars, preprocessVars, answerVars,
    ageVars, genVars>>

nonContextVars ==
  <<streamVars, vectorVars, providerVars, preprocessVars, answerVars,
    ageVars, genVars>>

nonProviderVars ==
  <<streamVars, vectorVars, contextVars, preprocessVars, answerVars,
    ageVars, genVars>>

nonAgeVars ==
  <<streamVars, vectorVars, contextVars, providerVars, preprocessVars,
    answerVars, genVars>>

nonGenVars ==
  <<streamVars, vectorVars, contextVars, providerVars, preprocessVars,
    answerVars, ageVars>>

\* what a call of PreprocessingService leaves alone besides the text_chunks
\* table and its own position
nonPreprocessVars ==
  <<streamVars, contextVars, providerVars, answerVars, ageVars, genVars,
    recordRows, searchCall, batchPc, batchChunks, batchTx, batchRows, batchResult>>

\* what the answer pipeline leaves alone besides the chat_history and
\* text_chunks tables
nonAnswerVars ==
  <<pc, modelChunks, fullResponse, emitted, subjectStopped, ctrlSub, streamSub,
    delivered, resEnded, closedAt, contextVars, providerVars, preprocessVars,
    ageVars, genVars, chunkSeq, searchCall, batchPc, batchChunks, batchTx,
    batchRows, batchResult>>

ContentEvent(c) == [type |-> "content", content |-> c, chatId |-> 0, error |-> ""]

DoneEvent(id) == [type |-> "done", content |-> <<>>, chatId |-> id, error |-> ""]

ErrorEvent(stage) == [type |-> "error", content |-> <<>>, chatId |-> 0, error |-> stage]

IsTerminal(ev) == ev.type \in {"done", "error"}

\* rxjs Subject.next: dropped once the subject is stopped, otherwise recorded
\* and handed to the observers that are still subscribed
SubjectNextEmitted(r, ev) ==
  IF subjectStopped[r] THEN emitted[r] ELSE Append(emitted[r], ev)

SubjectNextDelivered(r, ev) ==
  IF ~subjectStopped[r] /\ ctrlSub[r] THEN Append(delivered[r], ev) ELSE delivered[r]

\* subject.next(terminal); subject.complete(): the controller's complete
\* handler ends the response
EmitTerminal(r, ev) ==
  /\ emitted' = [emitted EXCEPT ![r] = SubjectNextEmitted(r, ev)]
  /\ delivered' = [delivered EXCEPT ![r] = SubjectNextDelivered(r, ev)]
  /\ subjectStopped' = [subjectStopped EXCEPT ![r] = TRUE]
  /\ resEnded' = [resEnded EXCEPT ![r] = resEnded[r] \/ (~subjectStopped[r] /\ ctrlSub[r])]
  /\ ctrlSub' = [ctrlSub EXCEPT ![r] = FALSE]

StreamLocalInit ==
  /\ pc = [r \in Requests |-> "idle"]
  /\ modelChunks = [r \in Requests |-> <<>>]
  /\ fullResponse = [r \in Requests |-> <<>>]
  /\ emitted = [r \in Requests |-> <<>>]
  /\ subjectStopped = [r \in Requests |-> FALSE]
  /\ ctrlSub = [r \in Requests |-> FALSE]
  /\ streamSub = [r \in Requests |-> FALSE]
  /\ delivered = [r \in Requests |-> <<>>]
  /\ resEnded = [r \in Requests |-> FALSE]
  /\ closedAt = [r \in Requests |-> "none"]

StreamInit == StreamLocalInit /\ chatHistory = <<>>

\* ChatController.chat: creates the subject through chatStream, subscribes to
\* it and registers the 'close' handler; buildContext is now pending
chat(r) ==
  /\ pc[r] = "idle"
  /\ pc' = [pc EXCEPT ![r] = "BUILDING_CONTEXT"]
  /\ ctrlSub' = [ctrlSub EXCEPT ![r] = TRUE]
  /\ UNCHANGED <<modelChunks, fullResponse, emitted, subjectStopped, streamSub,
                 delivered, resEnded, closedAt, chatHistory>>
  /\ UNCHANGED nonStreamVars

\* buildContext resolved and the .then callback built the messages and
\* subscribed to generateResponseStream
ContextBuilt(r) ==
  /\ pc[r] = "BUILDING_CONTEXT"
  /\ pc' = [pc EXCEPT ![r] = "STREAMING_TOKENS"]
  /\ streamSub' = [streamSub EXCEPT ![r] = TRUE]
  /\ UNCHANGED <<modelChunks, fullResponse, emitted, subjectStopped, ctrlSub,
                 delivered, resEnded, closedAt, chatHistory>>
  /\ UNCHANGED nonStreamVars

\* a .catch handler that only logs
ContextFailedSilent(r) ==
  /\ pc[r] = "BUILDING_CONTEXT"
  /\ pc' = [pc EXCEPT ![r] = "ERROR"]
  /\ UNCHANGED <<modelChunks, fullResponse, emitted, subjectStopped, ctrlSub,
                 streamSub, delivered, resEnded, closedAt, chatHistory>>
  /\ UNCHANGED nonStreamVars

\* buildContext rejected or the .then callback threw: the .catch handler
ContextFailed(r) ==
  /\ pc[r] = "BUILDING_CONTEXT"
  /\ pc' = [pc EXCEPT ![r] = "ERROR"]
  /\ EmitTerminal(r, ErrorEvent("context"))
  /\ UNCHANGED <<modelChunks, fullResponse, streamSub, closedAt, chatHistory>>
  /\ UNCHANGED nonStreamVars

\* a tap that accumulates in front of the text collected so far
ProviderChunkPrepend(r, c) ==
  /\ pc[r] = "STREAMING_TOKENS"
  /\ streamSub[r]
  /\ Len(modelChunks[r]) < MaxChunks
  /\ modelChunks' = [modelChunks EXCEPT ![r] = Append(@, c)]
  /\ IF c # <<>>
       THEN /\ emitted' = [emitted EXCEPT ![r] = SubjectNextEmitted(r, ContentEvent(c))]
            /\ delivered' = [delivered EXCEPT ![r] = SubjectNextDelivered(r, ContentEvent(c))]
            /\ fullResponse' = [fullResponse EXCEPT ![r] = c \o @]
       ELSE UNCHANGED <<emitted, delivered, fullResponse>>
  /\ UNCHANGED <<pc, subjectStopped, ctrlSub, streamSub, resEnded, closedAt, chatHistory>>
  /\ UNCHANGED nonStreamVars

\* a tap that accumulates in a field of the AIService singleton, which every
\* request's stream appends to
ProviderChunkShared(r, c) ==
  /\ pc[r] = "STREAMING_TOKENS"
  /\ streamSub[r]
  /\ Len(modelChunks[r]) < MaxChunks
  /\ modelChunks' = [modelChunks EXCEPT ![r] = Append(@, c)]
  /\ IF c # <<>>
       THEN /\ emitted' = [emitted EXCEPT ![r] = SubjectNextEmitted(r, ContentEvent(c))]
            /\ delivered' = [delivered EXCEPT ![r] = SubjectNextDelivered(r, ContentEvent(c))]
            /\ fullResponse' = [q \in Requests |-> fullResponse[q] \o c]
       ELSE UNCHANGED <<emitted, delivered, fullResponse>>
  /\ UNCHANGED <<pc, subjectStopped, ctrlSub, streamSub, resEnded, closedAt, chatHistory>>
  /\ UNCHANGED nonStreamVars

\* one iteration of the for-await loop of generateResponseStream; a chunk
\* with content reaches tap: subject.next(content), fullResponse += chunk
ProviderChunk(r, c) ==
  /\ pc[r] = "STREAMING_TOKENS"
  /\ streamSub[r]
  /\ Len(modelChunks[r]) < MaxChunks
  /\ modelChunks' = [modelChunks EXCEPT ![r] = Append(@, c)]
  /\ IF c # <<>>
       THEN /\ emitted' = [emitted EXCEPT ![r] = SubjectNextEmitted(r, ContentEvent(c))]
            /\ delivered' = [delivered EXCEPT ![r] = SubjectNextDelivered(r, ContentEvent(c))]
            /\ fullResponse' = [fullResponse EXCEPT ![r] = @ \o c]
       ELSE UNCHANGED <<emitted, delivered, fullResponse>>
  /\ UNCHANGED <<pc, subjectStopped, ctrlSub, streamSub, resEnded, closedAt, chatHistory>>
  /\ UNCHANGED nonStreamVars

\* the model's stream ended: subscriber.complete() starts the complete
\* handler, which runs the safety checks and awaits createChatHistory
ProviderComplete(r) ==
  /\ pc[r] = "STREAMING_TOKENS"
  /\ streamSub[r]
  /\ pc' = [pc EXCEPT ![r] = "FINALIZING"]
  /\ streamSub' = [streamSub EXCEPT ![r] = FALSE]
  /\ UNCHANGED <<modelChunks, fullResponse, emitted, subjectStopped, ctrlSub,
                 delivered, resEnded, closedAt, chatHistory>>
  /\ UNCHANGED nonStreamVars

\* an error handler that saves the partial response before reporting
ProviderErrorPersists(r) ==
  /\ pc[r] = "STREAMING_TOKENS"
  /\ streamSub[r]
  /\ pc' = [pc EXCEPT ![r] = "ERROR"]
  /\ streamSub' = [streamSub EXCEPT ![r] = FALSE]
  /\ chatHistory' = Append(chatHistory, [id |-> Len(chatHistory) + 1,
                                         userId |-> RequestArgs[r].userId,
                                         childId |-> RequestArgs[r].childId,
                                         userMessage |-> r,
                                         rawAiResponse |-> fullResponse[r]])
  /\ EmitTerminal(r, ErrorEvent("stream"))
  /\ UNCHANGED <<modelChunks, fullResponse, closedAt>>
  /\ UNCHANGED nonStreamVars

\* model.stream rejected or the stream threw: subscriber.error, error handler
ProviderError(r) ==
  /\ pc[r] = "STREAMING_TOKENS"
  /\ streamSub[r]
  /\ pc' = [pc EXCEPT ![r] = "ERROR"]
  /\ streamSub' = [streamSub EXCEPT ![r] = FALSE]
  /\ EmitTerminal(r, ErrorEvent("stream"))
  /\ UNCHANGED <<modelChunks, fullResponse, closedAt, chatHistory>>
  /\ UNCHANGED nonStreamVars

\* ChatHistoryService.createChatHistory: one insert, the id is generated
createChatHistory(r) ==
  Append(chatHistory, [id |-> Len(chatHistory) + 1,
                       userId |-> RequestArgs[r].userId,
                       childId |-> RequestArgs[r].childId,
                       userMessage |-> r,
                       rawAiResponse |-> fullResponse[r]])

\* a done event that carries the id of the row before the written one
PersistOkStaleId(r) ==
  /\ pc[r] = "FINALIZING"
  /\ chatHistory' = createChatHistory(r)
  /\ pc' = [pc EXCEPT ![r] = "DONE"]
  /\ EmitTerminal(r, DoneEvent(Len(chatHistory)))
  /\ UNCHANGED <<modelChunks, fullResponse, streamSub, closedAt>>
  /\ UNCHANGED nonStreamVars

\* the insert succeeded: done event with the id of the row
PersistOk(r) ==
  /\ pc[r] = "FINALIZING"
  /\ chatHistory' = createChatHistory(r)
  /\ pc' = [pc EXCEPT ![r] = "DONE"]
  /\ EmitTerminal(r, DoneEvent(Len(chatHistory) + 1))
  /\ UNCHANGED <<modelChunks, fullResponse, streamSub, closedAt>>
  /\ UNCHANGED nonStreamVars

\* the insert (or a safety check) threw: the catch of the complete handler
PersistFail(r) ==
  /\ pc[r] = "FINALIZING"
  /\ pc' = [pc EXCEPT ![r] = "ERROR"]
  /\ EmitTerminal(r, ErrorEvent("persist"))
  /\ UNCHANGED <<modelChunks, fullResponse, streamSub, closedAt, chatHistory>>
  /\ UNCHANGED nonStreamVars

\* req.on('close'): subscription.unsubscribe() on the controller's
\* subscription to the subject
ReqClose(r) ==
  /\ pc[r] # "idle"
  /\ closedAt[r] = "none"
  /\ closedAt' = [closedAt EXCEPT ![r] = pc[r]]
  /\ ctrlSub' = [ctrlSub EXCEPT ![r] = FALSE]
  /\ UNCHANGED <<pc, modelChunks, fullResponse, emitted, subjectStopped, streamSub,
                 delivered, resEnded, chatHistory>>
  /\ UNCHANGED nonStreamVars

StreamNext ==
  \E r \in Requests :
    \/ chat(r)
    \/ ContextBuilt(r)
    \/ ContextFailed(r)
    \/ \E c \in ChunkContents : ProviderChunk(r, c)
    \/ ProviderComplete(r)
    \/ ProviderError(r)
    \/ PersistOk(r)
    \/ PersistFail(r)
    \/ ReqClose(r)

(***************************************************************************)
(* Vector store: PostgresVectorService                                     *)
(***************************************************************************)
MaxRows == 3

MaxBatch == 2

Texts == {"t1", "t2", "t3"}

\* EmbeddingService.generateEmbedding: the provider maps a text to a vector,
\* here a direction 1..3
Embed(text) == CASE text = "t1" -> 1 [] text = "t2" -> 2 [] OTHER -> 3

\* 1 - (embedding <=> query): cosine similarity in percent
Similarity(a, b) ==
  CASE a = b -> 100
    [] a - b = 1 \/ b - a = 1 -> 65
    [] OTHER -> 40

\* chunks the callers submit
ChunkInputs ==
  { [content |-> "t1", sourceType |-> "record", sourceId |-> 1, childId |-> 1,
     metadata |-> [type |-> "sleep", n |-> 1]],
    [content |-> "t2", sourceType |-> "chat_history", sourceId |-> 1, childId |-> 1,
     metadata |-> [type |-> "feeding", n |-> 2]],
    [content |-> "t3", sourceType |-> "child_profile", sourceId |-> 1, childId |-> 1,
     metadata |-> [type |-> "sleep", n |-> 2]],
    [content |-> "t1", sourceType |-> "record", sourceId |-> 3, childId |-> 2,
     metadata |-> [type |-> "sleep", n |-> 1]],
    [content |-> "t3", sourceType |-> "chat_history", sourceId |-> 3, childId |-> 2,
     metadata |-> [type |-> "feeding", n |-> 1]] }

\* the row an INSERT creates; created_at defaults to now(), which grows with
\* the id
NewRow(c, id) ==
  [id |-> id, content |-> c.content, sourceType |-> c.sourceType,
   sourceId |-> c.sourceId, childId |-> c.childId, metadata |-> c.metadata,
   embedding |-> Embed(c.content), createdAt |-> id]

\* A string supplied by the caller.  text is the part up to the first quote
\* character; tail is what the rest of the string lexes to once it stands
\* between the quotes of the generated SQL (empty for a string without quote).
Str(x) == [text |-> x, tail |-> <<>>]

AndTok == [t |-> "AND"]

OrTok == [t |-> "OR"]

TrueTok == [t |-> "TRUE"]

\* "sleep' OR '1'='1"
InjOrTrue(x) == [text |-> x, tail |-> <<OrTok, TrueTok>>]

\* "record') OR 1=1 OR source_type IN ('record"
InjOrTrueOr(x) ==
  [text |-> x, tail |-> <<OrTok, TrueTok, OrTok, [t |-> "source_type_in", v |-> {x}]>>]

NoFilters == [sourceTypes |-> <<>>, fromDate |-> 0, toDate |-> 0, metadataFilters |-> <<>>]

\* filters the callers submit (0 stands for an absent date); a string with a
\* quote only occurs as the last string of its list
FilterInputs ==
  { NoFilters,
    [NoFilters EXCEPT !.sourceTypes = <<Str("record")>>],
    [NoFilters EXCEPT !.sourceTypes = <<Str("record"), Str("chat_history")>>],
    [NoFilters EXCEPT !.fromDate = 2],
    [NoFilters EXCEPT !.toDate = 1],
    [NoFilters EXCEPT !.metadataFilters =
       <<[key |-> "type", kind |-> "string", value |-> Str("sleep")]>>],
    [NoFilters EXCEPT !.metadataFilters =
       <<[key |-> "n", kind |-> "number", value |-> 1]>>],
    [NoFilters EXCEPT !.metadataFilters =
       <<[key |-> "type", kind |-> "array", value |-> <<Str("sleep"), Str("feeding")>>]>>],
    [NoFilters EXCEPT !.metadataFilters =
       <<[key |-> "type", kind |-> "string", value |-> InjOrTrue("sleep")]>>],
    [NoFilters EXCEPT !.sourceTypes = <<InjOrTrueOr("record")>>] }

TextsOf(strs) == {strs[i].text : i \in 1..Len(strs)}

\* one entry of metadataFilters, by the type of its value
MetadataCondition(e) ==
  CASE e.kind = "string" ->
         <<AndTok, [t |-> "meta_eq", k |-> e.key, v |-> e.value.text]>> \o e.value.tail
    [] e.kind = "number" ->
         <<AndTok, [t |-> "meta_num_eq", k |-> e.key, v |-> e.value]>>
    [] e.kind = "array" ->
         <<AndTok, [t |-> "meta_in", k |-> e.key, v |-> TextsOf(e.value)]>>
           \o e.value[Len(e.value)].tail
    [] OTHER -> <<>>

RECURSIVE MetadataConditions(_)
MetadataConditions(es) ==
  IF es = <<>> THEN <<>> ELSE MetadataCondition(Head(es)) \o MetadataConditions(Tail(es))

\* the text of filterConditions, as the SQL tokens it lexes to
filterConditions(childId, filters) ==
  <<[t |-> "child_id", v |-> childId]>>
  \o (IF Len(filters.sourceTypes) > 0
        THEN <<AndTok, [t |-> "source_type_in", v |-> TextsOf(filters.sourceTypes)]>>
               \o filters.sourceTypes[Len(filters.sourceTypes)].tail
        ELSE <<>>)
  \o (IF filters.fromDate # 0
        THEN <<AndTok, [t |-> "created_ge", v |-> filters.fromDate]>> ELSE <<>>)
  \o (IF filters.toDate # 0
        THEN <<AndTok, [t |-> "created_le", v |-> filters.toDate]>> ELSE <<>>)
  \o MetadataConditions(filters.metadataFilters)

\* WHERE ${Prisma.raw(filterConditions)} AND similarity >= ${threshold}
WhereClause(childId, threshold, filters) ==
  filterConditions(childId, filters) \o <<AndTok, [t |-> "sim_ge", v |-> threshold]>>

EvalPred(tok, row, q) ==
  CASE tok.t = "child_id" -> row.childId = tok.v
    [] tok.t = "source_type_in" -> row.sourceType \in tok.v
    [] tok.t = "created_ge" -> row.createdAt >= tok.v
    [] tok.t = "created_le" -> row.createdAt <= tok.v
    [] tok.t = "meta_eq" -> row.metadata[tok.k] = tok.v
    [] tok.t = "meta_num_eq" -> row.metadata[tok.k] = tok.v
    [] tok.t = "meta_in" -> row.metadata[tok.k] \in tok.v
    [] tok.t = "sim_ge" -> Similarity(row.embedding, q) >= tok.v
    [] tok.t = "TRUE" -> TRUE
    [] OTHER -> FALSE

\* SQL evaluates AND before OR: the clause is a disjunction of conjunctions
RECURSIVE EvalWhere(_, _, _)
EvalWhere(toks, row, q) ==
  LET ors == {i \in 1..Len(toks) : toks[i].t = "OR"} IN
  IF ors = {}
    THEN \A i \in 1..Len(toks) : toks[i].t = "AND" \/ EvalPred(toks[i], row, q)
    ELSE LET j == CHOOSE i \in ors : \A k \in ors : i <= k IN
         \/ \A i \in 1..(j - 1) : toks[i].t = "AND" \/ EvalPred(toks[i], row, q)
         \/ EvalWhere(SubSeq(toks, j + 1, Len(toks)), row, q)

ResultRow(row, q) ==
  [id |-> row.id, content |-> row.content, sourceType |-> row.sourceType,
   sourceId |-> row.sourceId, childId |-> row.childId, metadata |-> row.metadata,
   createdAt |-> row.createdAt, similarity |-> Similarity(row.embedding, q)]

\* the result lists the query can return: the matching rows ordered by
\* similarity, descending, cut at limit; the order of ties is not fixed
SearchResults(rows, queryText, childId, limit, threshold, filters) ==
  LET q == Embed(queryText)
      matching == {ResultRow(row, q) : row \in
                     {x \in rows : EvalWhere(WhereClause(childId, threshold, filters), x, q)}}
      k == IF Cardinality(matching) < limit THEN Cardinality(matching) ELSE limit
  IN { f \in [1..k -> matching] :
         /\ \A i, j \in 1..k : i < j => f[i] # f[j] /\ f[i].similarity >= f[j].similarity
         /\ \A m \in matching :
              (\A i \in 1..k : f[i] # m) => \A i \in 1..k : f[i].similarity >= m.similarity }

NoSearch ==
  [status |-> "none", queryText |-> "t1", childId |-> 0, limit |-> 0, threshold |-> 0,
   filters |-> NoFilters, rows |-> <<>>]

VectorInit ==
  /\ store = {}
  /\ chunkSeq = 0
  /\ searchCall = NoSearch
  /\ batchPc = "idle"
  /\ batchChunks = <<>>
  /\ batchTx = {}
  /\ batchRows = {}
  /\ batchResult = "none"

\* addTextChunk: embedding, then one INSERT (a failure of either throws and
\* leaves the table unchanged)
addTextChunk(c) ==
  /\ chunkSeq < MaxRows
  /\ store' = store \cup {NewRow(c, chunkSeq + 1)}
  /\ chunkSeq' = chunkSeq + 1
  /\ UNCHANGED <<searchCall, batchPc, batchChunks, batchTx, batchRows, batchResult>>
  /\ UNCHANGED nonVectorVars

\* VectorController.searchSimilarTextChunks calls the service, which first
\* awaits the embedding of the query text
searchSimilarTextChunks(queryText, childId, limit, threshold, filters) ==
  /\ searchCall.status = "none"
  /\ searchCall' = [status |-> "pending", queryText |-> queryText, childId |-> childId,
                    limit |-> limit, threshold |-> threshold, filters |-> filters,
                    rows |-> <<>>]
  /\ UNCHANGED <<store, chunkSeq, batchPc, batchChunks, batchTx, batchRows, batchResult>>
  /\ UNCHANGED nonVectorVars

\* the embedding arrived and $queryRaw ran on the committed rows
SearchQuery ==
  /\ searchCall.status = "pending"
  /\ \E rows \in SearchResults(store, searchCall.queryText, searchCall.childId,
                                searchCall.limit, searchCall.threshold, searchCall.filters) :
       searchCall' = [searchCall EXCEPT !.status = "ok", !.rows = rows]
  /\ UNCHANGED <<store, chunkSeq, batchPc, batchChunks, batchTx, batchRows, batchResult>>
  /\ UNCHANGED nonVectorVars

\* generateEmbedding or the query threw: the catch rethrows
SearchThrow ==
  /\ searchCall.status = "pending"
  /\ searchCall' = [searchCall EXCEPT !.status = "error"]
  /\ UNCHANGED <<store, chunkSeq, batchPc, batchChunks, batchTx, batchRows, batchResult>>
  /\ UNCHANGED nonVectorVars

\* the controller has sent the response
SearchReturn ==
  /\ searchCall.status \in {"ok", "error"}
  /\ searchCall' = NoSearch
  /\ UNCHANGED <<store, chunkSeq, batchPc, batchChunks, batchTx, batchRows, batchResult>>
  /\ UNCHANGED nonVectorVars

SearchNext ==
  \/ \E c \in ChunkInputs : addTextChunk(c)
  \/ \E queryText \in Texts, childId \in {1, 2}, limit \in {1, 5},
        threshold \in {60, 70}, filters \in FilterInputs :
       searchSimilarTextChunks(queryText, childId, limit, threshold, filters)
  \/ SearchQuery
  \/ SearchThrow
  \/ SearchReturn

\* batches the callers submit: up to MaxBatch chunks
BatchInputs == UNION {[1..n -> ChunkInputs] : n \in 0..MaxBatch}

\* addTextChunks is called: an empty batch returns 0 at once, otherwise the
\* embeddings of all contents are requested
addTextChunks(chunks) ==
  /\ batchPc = "idle"
  /\ batchChunks' = chunks
  /\ IF Len(chunks) = 0
       THEN batchPc' = "returned" /\ batchResult' = "ok"
       ELSE batchPc' = "embedding" /\ batchResult' = "none"
  /\ UNCHANGED <<store, chunkSeq, searchCall, batchTx, batchRows>>
  /\ UNCHANGED nonVectorVars

\* generateEmbeddings returned: $transaction opens a transaction
BatchEmbedded ==
  /\ batchPc = "embedding"
  /\ batchPc' = "transaction"
  /\ UNCHANGED <<store, chunkSeq, searchCall, batchChunks, batchTx, batchRows, batchResult>>
  /\ UNCHANGED nonVectorVars

\* generateEmbeddings threw: the catch rethrows, no statement was sent
BatchEmbedFailed ==
  /\ batchPc = "embedding"
  /\ batchPc' = "returned"
  /\ batchResult' = "error"
  /\ UNCHANGED <<store, chunkSeq, searchCall, batchChunks, batchTx, batchRows>>
  /\ UNCHANGED nonVectorVars

\* an insert loop whose statements run on the connection outside the
\* transaction, so that each row is committed at once
BatchInsertAutocommit ==
  /\ batchPc = "transaction"
  /\ Cardinality(batchRows) < Len(batchChunks)
  /\ chunkSeq < MaxRows
  /\ LET row == NewRow(batchChunks[Cardinality(batchRows) + 1], chunkSeq + 1) IN
       /\ store' = store \cup {row}
       /\ batchRows' = batchRows \cup {row}
  /\ chunkSeq' = chunkSeq + 1
  /\ UNCHANGED <<searchCall, batchPc, batchChunks, batchTx, batchResult>>
  /\ UNCHANGED nonVectorVars

\* one iteration of the insert loop: the row exists in the transaction only
BatchInsert ==
  /\ batchPc = "transaction"
  /\ Cardinality(batchRows) < Len(batchChunks)
  /\ chunkSeq < MaxRows
  /\ LET row == NewRow(batchChunks[Cardinality(batchRows) + 1], chunkSeq + 1) IN
       /\ batchTx' = batchTx \cup {row}
       /\ batchRows' = batchRows \cup {row}
  /\ chunkSeq' = chunkSeq + 1
  /\ UNCHANGED <<store, searchCall, batchPc, batchChunks, batchResult>>
  /\ UNCHANGED nonVectorVars

\* the callback returned insertedCount: the transaction commits
BatchCommit ==
  /\ batchPc = "transaction"
  /\ Cardinality(batchRows) = Len(batchChunks)
  /\ store' = store \cup batchTx
  /\ batchTx' = {}
  /\ batchPc' = "returned"
  /\ batchResult' = "ok"
  /\ UNCHANGED <<chunkSeq, searchCall, batchChunks, batchRows>>
  /\ UNCHANGED nonVectorVars

\* an insert or the commit threw, or the transaction timed out: it is rolled
\* back and the catch rethrows
BatchRollback ==
  /\ batchPc = "transaction"
  /\ batchTx' = {}
  /\ batchPc' = "returned"
  /\ batchResult' = "error"
  /\ UNCHANGED <<store, chunkSeq, searchCall, batchChunks, batchRows>>
  /\ UNCHANGED nonVectorVars

\* the caller has the result; the next call can start
BatchReturn ==
  /\ batchPc = "returned"
  /\ batchPc' = "idle"
  /\ batchChunks' = <<>>
  /\ batchRows' = {}
  /\ batchResult' = "none"
  /\ UNCHANGED <<store, chunkSeq, searchCall, batchTx>>
  /\ UNCHANGED nonVectorVars

BatchNext ==
  \/ \E c \in ChunkInputs : addTextChunk(c)
  \/ \E chunks \in BatchInputs : addTextChunks(chunks)
  \/ BatchEmbedded
  \/ BatchEmbedFailed
  \/ BatchInsert
  \/ BatchCommit
  \/ BatchRollback
  \/ BatchReturn

(***************************************************************************)
(* Context assembler: ContextRagFactory.buildContext                       *)
(***************************************************************************)
\* the child table: child 1 belongs to user 1, child 2 to user 2
Children == {[id |-> 1, userId |-> 1], [id |-> 2, userId |-> 2]}

\* the record table
Records == {[id |-> 1, childId |-> 1], [id |-> 2, childId |-> 1], [id |-> 3, childId |-> 2]}

\* the chat_history table the context is built from; ids grow with
\* requestTimestamp; user 1 has six chats
ChatTable ==
  [i \in 1..7 |->
     [id |-> i,
      userId |-> IF i = 3 THEN 2 ELSE 1,
      childId |-> CASE i \in {1, 2, 5, 7} -> 1 [] i = 3 -> 2 [] OTHER -> 0,
      userMessage |-> 0,
      rawAiResponse |-> <<>>]]

Users == {1, 2}

\* 0 is the absent childId; child 3 does not exist
ChildIdInputs == {0, 1, 2, 3}

SearchLimit == 10

SearchThreshold == 60

FallbackChatLimit == 5

RecentChatLimit == 3

Undefined == [defined |-> FALSE, items |-> <<>>]

BaseContext ==
  [child |-> 0, relevantRecords |-> <<>>, relevantChatHistory |-> <<>>,
   vectorSearchResults |-> [defined |-> TRUE, items |-> <<>>],
   profileInfo |-> <<>>, availableChildren |-> <<>>, recentChats |-> <<>>]

NoTrace ==
  [profile |-> "none", search |-> "none", hydrate |-> "none",
   fbRecords |-> "none", fbChats |-> "none"]

NoArgs == [userId |-> 0, childId |-> 0, userQuery |-> "t1"]

ContextInit ==
  /\ ctxPc = "idle"
  /\ ctxArgs = NoArgs
  /\ ctx = BaseContext
  /\ ctxHits = <<>>
  /\ ctxTrace = NoTrace

\* the elements of a set of rows as a sequence, largest id first
\* (orderBy ... desc on a timestamp that grows with the id)
RECURSIVE DescById(_)
DescById(S) ==
  IF S = {} THEN <<>>
  ELSE LET m == CHOOSE x \in S : \A y \in S : x.id >= y.id
       IN <<m>> \o DescById(S \ {m})

Take(s, n) == SubSeq(s, 1, IF Len(s) < n THEN Len(s) ELSE n)

\* ChildrenService.checkOwnership succeeds
OwnsChild(userId, childId) ==
  \E ch \in Children : ch.id = childId /\ ch.userId = userId

\* RecordsService.findOne succeeds
CanReadRecord(userId, id) ==
  \E rec \in Records : rec.id = id /\ OwnsChild(userId, rec.childId)

\* ChatHistoryService.getUserChats(userId, limit, 0)
getUserChats(userId, limit) ==
  Take(DescById({chatHistory[i] : i \in {j \in 1..Len(chatHistory) :
                                           chatHistory[j].userId = userId}}), limit)

\* [...new Set(results.map(r => r.sourceId))]: first occurrences, in order
RECURSIVE DistinctSourceIds(_)
DistinctSourceIds(s) ==
  IF s = <<>> THEN <<>>
  ELSE LET rest == DistinctSourceIds(SubSeq(s, 1, Len(s) - 1))
           x == s[Len(s)].sourceId
       IN IF \E i \in 1..Len(rest) : rest[i] = x THEN rest ELSE Append(rest, x)

\* results.find(r => r.sourceId === id)?.similarity
FirstSimilarity(results, id) ==
  results[CHOOSE i \in 1..Len(results) :
            /\ results[i].sourceId = id
            /\ \A j \in 1..(i - 1) : results[j].sourceId # id].similarity

\* Array.prototype.sort((a, b) => b.similarity - a.similarity), which is stable
RECURSIVE SortBySimilarityDesc(_)
SortBySimilarityDesc(s) ==
  IF Len(s) <= 1 THEN s
  ELSE LET best == CHOOSE i \in 1..Len(s) :
                     /\ \A j \in 1..Len(s) : s[i].similarity >= s[j].similarity
                     /\ \A j \in 1..(i - 1) : s[j].similarity < s[i].similarity
       IN <<s[best]>> \o SortBySimilarityDesc(SubSeq(s, 1, best - 1)
                                                \o SubSeq(s, best + 1, Len(s)))

IsRecordHit(h) == h.sourceType = "record"

IsChatHit(h) == h.sourceType = "chat_history"

IsProfileHit(h) == h.sourceType = "child_profile"

\* the entries of relevantRecords hydrated from the record hits
HydratedRecords(hits) ==
  LET results == SelectSeq(hits, IsRecordHit)
      ids == DistinctSourceIds(results)
  IN SortBySimilarityDesc([i \in 1..Len(ids) |->
       [source |-> ids[i], similarity |-> FirstSimilarity(results, ids[i])]])

\* the entries of relevantChatHistory hydrated from the chat hits; findUnique
\* yields null for a missing row, which is filtered out
HydratedChats(hits) ==
  LET results == SelectSeq(hits, IsChatHit)
      ids == DistinctSourceIds(results)
      Exists(id) == \E i \in 1..Len(chatHistory) : chatHistory[i].id = id
      found == SelectSeq(ids, Exists)
  IN SortBySimilarityDesc([i \in 1..Len(found) |->
       [source |-> found[i], similarity |-> FirstSimilarity(results, found[i])]])

\* entries without a similarity (the fallback path) carry -1
Unscored(rows) == [i \in 1..Len(rows) |-> [source |-> rows[i].id, similarity |-> -1]]

\* recordsService.findAllByChild, mapped
AllRecordsOfChild(childId) ==
  Unscored(DescById({rec \in Records : rec.childId = childId}))

\* getUserChats(userId, 5, 0) filtered to the child, mapped
FallbackChats(userId, childId) ==
  LET last == getUserChats(userId, FallbackChatLimit)
      keep == {i \in 1..Len(last) : last[i].childId = childId}
      RECURSIVE Pick(_)
      Pick(i) == IF i > Len(last) THEN <<>>
                 ELSE (IF i \in keep THEN <<last[i]>> ELSE <<>>) \o Pick(i + 1)
  IN Unscored(Pick(1))

\* a fallback that leaves vectorSearchResults as it is
fallbackKeepsVectorResults(c) == c

\* first statement of fallbackToTraditionalContext
fallbackToTraditionalContext(c) == [c EXCEPT !.vectorSearchResults = Undefined]

\* buildContext is called: the base context is created
buildContext(userId, childId, userQuery) ==
  /\ ctxPc = "idle"
  /\ ctxArgs' = [userId |-> userId, childId |-> childId, userQuery |-> userQuery]
  /\ ctx' = BaseContext
  /\ ctxHits' = <<>>
  /\ ctxTrace' = NoTrace
  /\ ctxPc' = IF childId # 0 THEN "findChild" ELSE "findAll"
  /\ UNCHANGED nonContextVars

\* childrenService.findOne returned the child
ChildFound ==
  /\ ctxPc = "findChild"
  /\ OwnsChild(ctxArgs.userId, ctxArgs.childId)
  /\ ctx' = [ctx EXCEPT !.child = ctxArgs.childId]
  /\ ctxTrace' = [ctxTrace EXCEPT !.profile = "ok"]
  /\ ctxPc' = "search"
  /\ UNCHANGED <<ctxArgs, ctxHits>>
  /\ UNCHANGED nonContextVars

\* childrenService.findOne threw (not found, not owned, or the database
\* failed): the outer catch falls back
ChildLookupThrows ==
  /\ ctxPc = "findChild"
  /\ ctx' = fallbackToTraditionalContext(ctx)
  /\ ctxTrace' = [ctxTrace EXCEPT !.profile = "threw"]
  /\ ctxPc' = "fbRecords"
  /\ UNCHANGED <<ctxArgs, ctxHits>>
  /\ UNCHANGED nonContextVars

\* searchSimilarTextChunks(userQuery, childId, 10, 0.6) returned
VectorSearchOk ==
  /\ ctxPc = "search"
  /\ \E rows \in SearchResults(store, ctxArgs.userQuery, ctxArgs.childId,
                               SearchLimit, SearchThreshold, NoFilters) :
       /\ ctxHits' = rows
       /\ ctx' = [ctx EXCEPT !.vectorSearchResults =
                    [defined |-> TRUE,
                     items |-> [i \in 1..Len(rows) |->
                                  [content |-> rows[i].content,
                                   sourceType |-> rows[i].sourceType,
                                   sourceId |-> rows[i].sourceId,
                                   similarity |-> rows[i].similarity,
                                   metadata |-> rows[i].metadata]]]]
  /\ ctxTrace' = [ctxTrace EXCEPT !.search = "ok"]
  /\ ctxPc' = "hydrateRecords"
  /\ UNCHANGED ctxArgs
  /\ UNCHANGED nonContextVars

\* searchSimilarTextChunks threw: the inner catch falls back
VectorSearchThrows ==
  /\ ctxPc = "search"
  /\ ctx' = fallbackToTraditionalContext(ctx)
  /\ ctxTrace' = [ctxTrace EXCEPT !.search = "threw"]
  /\ ctxPc' = "fbRecords"
  /\ UNCHANGED <<ctxArgs, ctxHits>>
  /\ UNCHANGED nonContextVars

\* every recordsService.findOne of the record hits returned (none is called
\* when there is no record hit)
HydrateRecordsOk ==
  /\ ctxPc = "hydrateRecords"
  /\ \A i \in 1..Len(ctxHits) :
       IsRecordHit(ctxHits[i]) => CanReadRecord(ctxArgs.userId, ctxHits[i].sourceId)
  /\ ctx' = IF SelectSeq(ctxHits, IsRecordHit) # <<>>
              THEN [ctx EXCEPT !.relevantRecords = HydratedRecords(ctxHits)]
              ELSE ctx
  /\ ctxPc' = "hydrateChats"
  /\ UNCHANGED <<ctxArgs, ctxHits, ctxTrace>>
  /\ UNCHANGED nonContextVars

\* a Promise.all of the record lookups whose rejection no catch absorbs: the
\* call ends without a context
HydrateRecordsRejects ==
  /\ ctxPc = "hydrateRecords"
  /\ SelectSeq(ctxHits, IsRecordHit) # <<>>
  /\ ctxTrace' = [ctxTrace EXCEPT !.hydrate = "threw"]
  /\ ctxPc' = "rejected"
  /\ UNCHANGED <<ctxArgs, ctx, ctxHits>>
  /\ UNCHANGED nonContextVars

\* one recordsService.findOne threw: Promise.all rejects, the inner catch
\* falls back
HydrateRecordsThrows ==
  /\ ctxPc = "hydrateRecords"
  /\ SelectSeq(ctxHits, IsRecordHit) # <<>>
  /\ ctx' = fallbackToTraditionalContext(ctx)
  /\ ctxTrace' = [ctxTrace EXCEPT !.hydrate = "threw"]
  /\ ctxPc' = "fbRecords"
  /\ UNCHANGED <<ctxArgs, ctxHits>>
  /\ UNCHANGED nonContextVars

\* every getChatHistory of the chat hits returned; the profile hits are
\* added and the context is returned
HydrateChatsOk ==
  /\ ctxPc = "hydrateChats"
  /\ ctx' = [ctx EXCEPT
               !.relevantChatHistory =
                  IF SelectSeq(ctxHits, IsChatHit) # <<>>
                    THEN HydratedChats(ctxHits) ELSE @,
               !.profileInfo = SelectSeq(ctx.vectorSearchResults.items, IsProfileHit)]
  /\ ctxTrace' = [ctxTrace EXCEPT !.hydrate = "ok"]
  /\ ctxPc' = "returned"
  /\ UNCHANGED <<ctxArgs, ctxHits>>
  /\ UNCHANGED nonContextVars

\* one getChatHistory threw: the inner catch falls back
HydrateChatsThrows ==
  /\ ctxPc = "hydrateChats"
  /\ SelectSeq(ctxHits, IsChatHit) # <<>>
  /\ ctx' = fallbackToTraditionalContext(ctx)
  /\ ctxTrace' = [ctxTrace EXCEPT !.hydrate = "threw"]
  /\ ctxPc' = "fbRecords"
  /\ UNCHANGED <<ctxArgs, ctxHits>>
  /\ UNCHANGED nonContextVars

\* fallback: findAllByChild returned (it checks the ownership of the child)
FallbackRecordsOk ==
  /\ ctxPc = "fbRecords"
  /\ OwnsChild(ctxArgs.userId, ctxArgs.childId)
  /\ ctx' = [ctx EXCEPT !.relevantRecords = AllRecordsOfChild(ctxArgs.childId)]
  /\ ctxTrace' = [ctxTrace EXCEPT !.fbRecords = "ok"]
  /\ ctxPc' = "fbChats"
  /\ UNCHANGED <<ctxArgs, ctxHits>>
  /\ UNCHANGED nonContextVars

\* fallback: findAllByChild threw, which is only logged
FallbackRecordsThrows ==
  /\ ctxPc = "fbRecords"
  /\ ctxTrace' = [ctxTrace EXCEPT !.fbRecords = "threw"]
  /\ ctxPc' = "fbChats"
  /\ UNCHANGED <<ctxArgs, ctx, ctxHits>>
  /\ UNCHANGED nonContextVars

\* fallback: getUserChats(userId, 5, 0) returned
FallbackChatsOk ==
  /\ ctxPc = "fbChats"
  /\ ctx' = [ctx EXCEPT !.relevantChatHistory =
                          FallbackChats(ctxArgs.userId, ctxArgs.childId)]
  /\ ctxTrace' = [ctxTrace EXCEPT !.fbChats = "ok"]
  /\ ctxPc' = "returned"
  /\ UNCHANGED <<ctxArgs, ctxHits>>
  /\ UNCHANGED nonContextVars

\* fallback: getUserChats threw, which is only logged
FallbackChatsThrows ==
  /\ ctxPc = "fbChats"
  /\ ctxTrace' = [ctxTrace EXCEPT !.fbChats = "threw"]
  /\ ctxPc' = "returned"
  /\ UNCHANGED <<ctxArgs, ctx, ctxHits>>
  /\ UNCHANGED nonContextVars

\* no childId: childrenService.findAll returned, or threw and was logged
FindAllChildren(ok) ==
  /\ ctxPc = "findAll"
  /\ ctx' = IF ok
              THEN [ctx EXCEPT !.availableChildren =
                      DescById({ch \in Children : ch.userId = ctxArgs.userId})]
              ELSE ctx
  /\ ctxPc' = "recentChats"
  /\ UNCHANGED <<ctxArgs, ctxHits, ctxTrace>>
  /\ UNCHANGED nonContextVars

\* no childId: getUserChats(userId, 3, 0) returned, or threw and was logged;
\* the context is returned
RecentChats(ok) ==
  /\ ctxPc = "recentChats"
  /\ ctx' = IF ok
              THEN [ctx EXCEPT !.recentChats =
                      Unscored(getUserChats(ctxArgs.userId, RecentChatLimit))]
              ELSE ctx
  /\ ctxPc' = "returned"
  /\ UNCHANGED <<ctxArgs, ctxHits, ctxTrace>>
  /\ UNCHANGED nonContextVars

\* the caller has the context; the next call can start
ContextReturn ==
  /\ ctxPc = "returned"
  /\ ctxPc' = "idle"
  /\ ctxArgs' = NoArgs
  /\ ctx' = BaseContext
  /\ ctxHits' = <<>>
  /\ ctxTrace' = NoTrace
  /\ UNCHANGED nonContextVars

\* chunks the callers of POST /vector/text-chunk submit while contexts are
\* built: the controller accepts any childId, sourceType and sourceId, so
\* also a chunk filed under child 1 that names chat 3 (of user 2) or record
\* 3 (of child 2)
ContextChunkInputs ==
  ChunkInputs \cup
    { [content |-> "t2", sourceType |-> "chat_history", sourceId |-> 3,
       childId |-> 1, metadata |-> [type |-> "feeding", n |-> 1]],
      [content |-> "t1", sourceType |-> "record", sourceId |-> 3,
       childId |-> 1, metadata |-> [type |-> "sleep", n |-> 1]] }

ContextNext ==
  \/ \E c \in ContextChunkInputs : addTextChunk(c)
  \/ \E userId \in Users, childId \in ChildIdInputs, userQuery \in Texts :
       buildContext(userId, childId, userQuery)
  \/ ChildFound
  \/ ChildLookupThrows
  \/ VectorSearchOk
  \/ VectorSearchThrows
  \/ HydrateRecordsOk
  \/ HydrateRecordsThrows
  \/ HydrateChatsOk
  \/ HydrateChatsThrows
  \/ FallbackRecordsOk
  \/ FallbackRecordsThrows
  \/ FallbackChatsOk
  \/ FallbackChatsThrows
  \/ \E ok \in BOOLEAN : FindAllChildren(ok)
  \/ \E ok \in BOOLEAN : RecentChats(ok)
  \/ ContextReturn

(***************************************************************************)
(* Provider clients: EmbeddingService, SiliconFlowEmbeddings and           *)
(* SiliconFlowChat._callApiWithRetry                                       *)
(***************************************************************************)
MaxRetries == 1

BatchSize == 2

EmbeddingDimensions == 1536

\* lengths of the vector a well-formed provider response can carry
ProviderDimensions == {1536, 1024}

\* String.prototype.trim
RECURSIVE trimStart(_)
trimStart(t) == IF t # <<>> /\ Head(t) = " " THEN trimStart(Tail(t)) ELSE t

RECURSIVE trimEnd(_)
trimEnd(t) ==
  IF t # <<>> /\ t[Len(t)] = " " THEN trimEnd(SubSeq(t, 1, Len(t) - 1)) ELSE t

trim(t) == trimEnd(trimStart(t))

\* !text || text.trim() === ''
IsBlank(t) == t = <<>> \/ trim(t) = <<>>

\* texts handed to generateEmbedding
TextInputs == {<<>>, <<" ">>, <<"a">>, <<"b", " ">>}

\* arrays handed to generateEmbeddings; the longest one needs two groups
DocumentInputs ==
  { <<>>,
    << <<"a">> >>,
    << <<"a">>, <<"b", " ">> >>,
    << <<"a">>, <<" ">>, <<"a">> >>,
    [k \in 1..(BatchSize + 1) |-> <<"a">>] }

\* what the provider can answer to one POST: a body with an embedding of
\* some length, a 200 whose body lacks data[0].embedding, or a failure
ResponseOk(d) == [ok |-> TRUE, dim |-> d, kind |-> "none"]

ResponseFail(kind) == [ok |-> FALSE, dim |-> 0, kind |-> kind]

EmbedResponses ==
  {ResponseOk(d) : d \in ProviderDimensions}
    \cup {ResponseFail(k) : k \in {"malformed", "timeout", "http500",
                                    "http429", "http400"}}

\* answers to the POST of the chat client; "network" is an AxiosError without
\* response and with another code, "nonAxios" any other exception
ApiResponses ==
  {ResponseOk(0)}
    \cup {ResponseFail(k) : k \in {"timeout", "http500", "http429",
                                    "http400", "network", "nonAxios"}}

\* the vector of a text, as the provider returned it
Vec(text, d) == [of |-> text, dim |-> d]

NoVec == Vec(<<>>, 0)

NotStarted ==
  [state |-> "notStarted", retryCount |-> 0, lastError |-> "none",
   attempts |-> 0, value |-> NoVec]

\* embedText up to its first await: the input check, then the first POST
embedText(text) ==
  IF IsBlank(text)
    THEN [NotStarted EXCEPT !.state = "rejected", !.lastError = "emptyInput"]
    ELSE [NotStarted EXCEPT !.state = "inFlight", !.attempts = 1]

NoEmbCall ==
  [kind |-> "none", texts |-> <<>>, i |-> 0, status |-> "idle",
   embeddings |-> <<>>, error |-> "none"]

NoApiCall ==
  [state |-> "idle", retryCount |-> 0, error |-> "none", attempts |-> 0]

ProviderInit ==
  /\ embCall = NoEmbCall
  /\ embReq = <<>>
  /\ apiCall = NoApiCall

\* indices of the texts of the group that starts at offset i
Group(texts, i) == {k \in 1..Len(texts) : k > i /\ k <= i + BatchSize}

\* batch.map((doc) => this.embedText(doc))
StartGroup(reqs, texts, i) ==
  [k \in DOMAIN reqs |->
     IF k \in Group(texts, i) THEN embedText(texts[k]) ELSE reqs[k]]

\* generateEmbedding without its input check
generateEmbeddingUnchecked(text) ==
  /\ embCall.status = "idle"
  /\ apiCall.state = "idle"
  /\ embCall' = [NoEmbCall EXCEPT !.kind = "single",
                   !.texts = <<text>>, !.status = "running"]
  /\ embReq' = <<[NotStarted EXCEPT !.state = "inFlight", !.attempts = 1]>>
  /\ UNCHANGED apiCall
  /\ UNCHANGED nonProviderVars

\* EmbeddingService.generateEmbedding up to its first await
generateEmbedding(text) ==
  /\ embCall.status = "idle"
  /\ apiCall.state = "idle"
  /\ IF IsBlank(text)
       THEN /\ embCall' = [NoEmbCall EXCEPT !.kind = "single",
                             !.texts = <<text>>, !.status = "thrown",
                             !.error = "emptyInput"]
            /\ UNCHANGED embReq
       ELSE /\ embCall' = [NoEmbCall EXCEPT !.kind = "single",
                             !.texts = <<text>>, !.status = "running"]
            /\ embReq' = <<embedText(text)>>
  /\ UNCHANGED apiCall
  /\ UNCHANGED nonProviderVars

\* EmbeddingService.generateEmbeddings and embedDocuments up to the first
\* await Promise.all
generateEmbeddings(texts) ==
  /\ embCall.status = "idle"
  /\ apiCall.state = "idle"
  /\ IF texts = <<>>
       THEN /\ embCall' = [NoEmbCall EXCEPT !.kind = "batch",
                             !.status = "thrown", !.error = "emptyInput"]
            /\ UNCHANGED embReq
       ELSE /\ embCall' = [NoEmbCall EXCEPT !.kind = "batch",
                             !.texts = texts, !.status = "running"]
            /\ embReq' = StartGroup([k \in 1..Len(texts) |-> NotStarted],
                                    texts, 0)
  /\ UNCHANGED apiCall
  /\ UNCHANGED nonProviderVars

\* embedText with a loop that runs once more
EmbedRespondsExtraRetry(k, resp) ==
  /\ k \in DOMAIN embReq
  /\ embReq[k].state = "inFlight"
  /\ embReq' =
       [embReq EXCEPT ![k] =
          IF resp.ok
            THEN [@ EXCEPT !.state = "resolved",
                           !.value = Vec(embCall.texts[k], resp.dim)]
            ELSE [@ EXCEPT !.lastError = resp.kind,
                           !.retryCount = @ + 1,
                           !.state = IF embReq[k].retryCount <= MaxRetries
                                       THEN "backoff" ELSE "rejected"]]
  /\ UNCHANGED <<embCall, apiCall>>
  /\ UNCHANGED nonProviderVars

\* one POST /embeddings settles: the try block and the catch block of the
\* loop of embedText
EmbedResponds(k, resp) ==
  /\ k \in DOMAIN embReq
  /\ embReq[k].state = "inFlight"
  /\ embReq' =
       [embReq EXCEPT ![k] =
          IF resp.ok
            THEN [@ EXCEPT !.state = "resolved",
                           !.value = Vec(embCall.texts[k], resp.dim)]
            ELSE [@ EXCEPT !.lastError = resp.kind,
                           !.retryCount = @ + 1,
                           !.state = IF embReq[k].retryCount + 1 <= MaxRetries
                                       THEN "backoff" ELSE "rejected"]]
  /\ UNCHANGED <<embCall, apiCall>>
  /\ UNCHANGED nonProviderVars

\* the delay of embedText elapses and the loop posts again
EmbedBackoffElapsed(k) ==
  /\ k \in DOMAIN embReq
  /\ embReq[k].state = "backoff"
  /\ embReq' = [embReq EXCEPT ![k].state = "inFlight",
                              ![k].attempts = @ + 1]
  /\ UNCHANGED <<embCall, apiCall>>
  /\ UNCHANGED nonProviderVars

\* generateEmbedding after embedQuery resolved: a vector of another length
\* than the configured one is logged and returned
SingleReturn ==
  /\ embCall.kind = "single"
  /\ embCall.status = "running"
  /\ embReq[1].state = "resolved"
  /\ embCall' = [embCall EXCEPT !.status = "returned",
                                !.embeddings = <<embReq[1].value>>]
  /\ UNCHANGED <<embReq, apiCall>>
  /\ UNCHANGED nonProviderVars

\* generateEmbedding after embedQuery rejected
SingleThrow ==
  /\ embCall.kind = "single"
  /\ embCall.status = "running"
  /\ embReq[1].state = "rejected"
  /\ embCall' = [embCall EXCEPT !.status = "thrown",
                                !.error = embReq[1].lastError]
  /\ UNCHANGED <<embReq, apiCall>>
  /\ UNCHANGED nonProviderVars

\* embedDocuments going on as soon as one request of the group resolved
GroupResolvedEarly ==
  /\ embCall.kind = "batch"
  /\ embCall.status = "running"
  /\ \E k \in Group(embCall.texts, embCall.i) : embReq[k].state = "resolved"
  /\ LET next == embCall.i + BatchSize
         pushed == embCall.embeddings \o
                     [j \in 1..Cardinality(Group(embCall.texts, embCall.i)) |->
                        embReq[embCall.i + j].value]
     IN IF next < Len(embCall.texts)
          THEN /\ embCall' = [embCall EXCEPT !.i = next, !.embeddings = pushed]
               /\ embReq' = StartGroup(embReq, embCall.texts, next)
          ELSE /\ embCall' = [embCall EXCEPT !.i = next, !.embeddings = pushed,
                                             !.status = "returned"]
               /\ UNCHANGED embReq
  /\ UNCHANGED apiCall
  /\ UNCHANGED nonProviderVars

\* await Promise.all(batchPromises) resolves: push the vectors and go on
\* with the next group, or return
GroupResolved ==
  /\ embCall.kind = "batch"
  /\ embCall.status = "running"
  /\ \A k \in Group(embCall.texts, embCall.i) : embReq[k].state = "resolved"
  /\ LET next == embCall.i + BatchSize
         pushed == embCall.embeddings \o
                     [j \in 1..Cardinality(Group(embCall.texts, embCall.i)) |->
                        embReq[embCall.i + j].value]
     IN IF next < Len(embCall.texts)
          THEN /\ embCall' = [embCall EXCEPT !.i = next, !.embeddings = pushed]
               /\ embReq' = StartGroup(embReq, embCall.texts, next)
          ELSE /\ embCall' = [embCall EXCEPT !.i = next, !.embeddings = pushed,
                                             !.status = "returned"]
               /\ UNCHANGED embReq
  /\ UNCHANGED apiCall
  /\ UNCHANGED nonProviderVars

\* await Promise.all(batchPromises) rejects as soon as one embedText of the
\* group rejects; the other requests of the group go on
GroupRejected ==
  /\ embCall.kind = "batch"
  /\ embCall.status = "running"
  /\ \E k \in Group(embCall.texts, embCall.i) :
       /\ embReq[k].state = "rejected"
       /\ embCall' = [embCall EXCEPT !.status = "thrown",
                                     !.error = embReq[k].lastError]
  /\ UNCHANGED <<embReq, apiCall>>
  /\ UNCHANGED nonProviderVars

\* the condition of _callApiWithRetry
shouldRetry(retryCount, kind) ==
  /\ kind # "nonAxios"
  /\ retryCount < MaxRetries
  /\ kind \in {"timeout", "http500", "http429"}

\* SiliconFlowChat._callApiWithRetry up to its POST
callApiWithRetry ==
  /\ apiCall.state = "idle"
  /\ embCall.status = "idle"
  /\ apiCall' = [NoApiCall EXCEPT !.state = "inFlight", !.attempts = 1]
  /\ UNCHANGED <<embCall, embReq>>
  /\ UNCHANGED nonProviderVars

\* the POST of _callApiWithRetry settles
ApiResponds(resp) ==
  /\ apiCall.state = "inFlight"
  /\ apiCall' =
       IF resp.ok
         THEN [apiCall EXCEPT !.state = "returned"]
         ELSE [apiCall EXCEPT !.error = resp.kind,
                              !.state = IF shouldRetry(apiCall.retryCount, resp.kind)
                                          THEN "backoff" ELSE "thrown"]
  /\ UNCHANGED <<embCall, embReq>>
  /\ UNCHANGED nonProviderVars

\* the delay elapses: _callApiWithRetry(endpoint, params, retryCount + 1)
ApiBackoffElapsed ==
  /\ apiCall.state = "backoff"
  /\ apiCall' = [apiCall EXCEPT !.state = "inFlight", !.retryCount = @ + 1,
                                !.attempts = @ + 1]
  /\ UNCHANGED <<embCall, embReq>>
  /\ UNCHANGED nonProviderVars

ProviderNext ==
  \/ \E text \in TextInputs : generateEmbedding(text)
  \/ \E texts \in DocumentInputs : generateEmbeddings(texts)
  \/ \E k \in 1..(BatchSize + 1), resp \in EmbedResponses : EmbedResponds(k, resp)
  \/ \E k \in 1..(BatchSize + 1) : EmbedBackoffElapsed(k)
  \/ SingleReturn
  \/ SingleThrow
  \/ GroupResolved
  \/ GroupRejected
  \/ callApiWithRetry
  \/ \E resp \in ApiResponses : ApiResponds(resp)
  \/ ApiBackoffElapsed

(***************************************************************************)
(* Preprocessing: PreprocessingService                                     *)
(***************************************************************************)
\* the callers of the service
Procs == {1, 2}

\* ids the callers pass: record 9 and child 3 do not exist, chat 4 has no
\* child
RecordIdInputs == {1, 2, 9}

ChatIdInputs == {1, 4}

ProfileIdInputs == {1, 3}

BatchChildInputs == {1, 2}

\* ids the sequence of text_chunks can hand out while entities are processed
PreprocessRowLimit == MaxRows

\* buildRecordText and the arguments of addTextChunk: a record always has a
\* text (type and time)
RecordChunk(rec) ==
  [content |-> "t1", sourceType |-> "record", sourceId |-> rec.id,
   childId |-> rec.childId, metadata |-> [type |-> "sleep", n |-> 1]]

\* the text of a chat and the arguments of addTextChunk
ChatChunk(row) ==
  [content |-> "t2", sourceType |-> "chat_history", sourceId |-> row.id,
   childId |-> row.childId, metadata |-> [type |-> "chat", n |-> 1]]

\* the basic-info chunk of a child profile (the optional ones are left out)
ProfileChunk(child) ==
  [content |-> "t3", sourceType |-> "child_profile", sourceId |-> child.id,
   childId |-> child.id, metadata |-> [type |-> "basic_info", n |-> 1]]

\* prisma.record.findMany({ where: { childId } }): a sequence by id
RECURSIVE SeqOfRecords(_)
SeqOfRecords(S) ==
  IF S = {} THEN <<>>
  ELSE LET r == CHOOSE x \in S : \A y \in S : x.id <= y.id
       IN <<RecordChunk(r)>> \o SeqOfRecords(S \ {r})

RecordsOfChild(childId) == SeqOfRecords({r \in recordRows : r.childId = childId})

\* DELETE FROM text_chunks WHERE source_type = .. AND source_id = ..
deleteTextChunksBySource(rows, sourceType, sourceId) ==
  {r \in rows : ~(r.sourceType = sourceType /\ r.sourceId = sourceId)}

\* the rows the INSERTs of a call create from its chunks
InsertedRows(chunks, seq) ==
  {NewRow(chunks[j], seq + j) : j \in 1..Len(chunks)}

IdleProc ==
  [op |-> "none", pc |-> "idle", sourceType |-> "none", sourceIds |-> {},
   chunks |-> <<>>, inserted |-> {}, deleted |-> 0, result |-> "none",
   alone |-> TRUE]

PreprocessInit ==
  /\ proc = [p \in Procs |-> IdleProc]
  /\ recordRows = Records

\* a call starts: every running call is no longer alone
Started(p, call) ==
  [q \in Procs |->
     IF q = p THEN [call EXCEPT !.alone = \A o \in Procs \ {p} : proc[o].pc = "idle"]
     ELSE IF proc[q].pc = "idle" THEN proc[q]
     ELSE [proc[q] EXCEPT !.alone = FALSE]]

\* processRecord up to deleteTextChunksBySource
processRecord(p, recordId) ==
  /\ proc[p].pc = "idle"
  /\ LET found == {r \in recordRows : r.id = recordId}
     IN IF found = {}
          THEN proc' = Started(p, [IdleProc EXCEPT !.op = "record", !.pc = "done",
                                     !.result = "false"])
          ELSE LET rec == CHOOSE r \in found : TRUE
               IN proc' = Started(p, [IdleProc EXCEPT !.op = "record",
                                        !.pc = "deleting", !.sourceType = "record",
                                        !.sourceIds = {recordId},
                                        !.chunks = <<RecordChunk(rec)>>])
  /\ UNCHANGED <<store, chunkSeq>>
  /\ UNCHANGED nonPreprocessVars

\* processChatHistory up to deleteTextChunksBySource
processChatHistory(p, chatHistoryId) ==
  /\ proc[p].pc = "idle"
  /\ LET found == {i \in DOMAIN chatHistory : chatHistory[i].id = chatHistoryId
                                             /\ chatHistory[i].childId # 0}
     IN IF found = {}
          THEN proc' = Started(p, [IdleProc EXCEPT !.op = "chat", !.pc = "done",
                                     !.result = "false"])
          ELSE LET row == chatHistory[CHOOSE i \in found : TRUE]
               IN proc' = Started(p, [IdleProc EXCEPT !.op = "chat",
                                        !.pc = "deleting",
                                        !.sourceType = "chat_history",
                                        !.sourceIds = {chatHistoryId},
                                        !.chunks = <<ChatChunk(row)>>])
  /\ UNCHANGED <<store, chunkSeq>>
  /\ UNCHANGED nonPreprocessVars

\* processChildProfile up to deleteTextChunksBySource
processChildProfile(p, childId) ==
  /\ proc[p].pc = "idle"
  /\ LET found == {c \in Children : c.id = childId}
     IN IF found = {}
          THEN proc' = Started(p, [IdleProc EXCEPT !.op = "profile", !.pc = "done",
                                     !.result = "false"])
          ELSE LET child == CHOOSE c \in found : TRUE
               IN proc' = Started(p, [IdleProc EXCEPT !.op = "profile",
                                        !.pc = "deleting",
                                        !.sourceType = "child_profile",
                                        !.sourceIds = {childId},
                                        !.chunks = <<ProfileChunk(child)>>])
  /\ UNCHANGED <<store, chunkSeq>>
  /\ UNCHANGED nonPreprocessVars

\* processRecordsBatch up to addTextChunks: the chunks of the records of the
\* child are built, and nothing is deleted
processRecordsBatch(p, childId) ==
  /\ proc[p].pc = "idle"
  /\ LET chunks == RecordsOfChild(childId)
     IN proc' = Started(p, [IdleProc EXCEPT !.op = "batch",
                              !.pc = IF chunks = <<>> THEN "done" ELSE "adding",
                              !.result = IF chunks = <<>> THEN "true" ELSE "none",
                              !.sourceType = "record",
                              !.sourceIds = {chunks[j].sourceId : j \in DOMAIN chunks},
                              !.chunks = chunks])
  /\ UNCHANGED <<store, chunkSeq>>
  /\ UNCHANGED nonPreprocessVars

\* deleteTextChunksBySource returned
ProcDeleted(p) ==
  /\ proc[p].pc = "deleting"
  /\ store' = deleteTextChunksBySource(store, proc[p].sourceType,
                                        CHOOSE id \in proc[p].sourceIds : TRUE)
  /\ proc' = [proc EXCEPT ![p].pc = "adding", ![p].deleted = Cardinality(store \ store')]
  /\ UNCHANGED chunkSeq
  /\ UNCHANGED nonPreprocessVars

\* addTextChunk / addTextChunks returned: the rows are in the table
ProcAdded(p) ==
  /\ proc[p].pc = "adding"
  /\ chunkSeq + Len(proc[p].chunks) <= PreprocessRowLimit
  /\ LET rows == InsertedRows(proc[p].chunks, chunkSeq)
     IN /\ store' = store \cup rows
        /\ proc' = [proc EXCEPT ![p].pc = "done", ![p].result = "true",
                                ![p].inserted = rows]
  /\ chunkSeq' = chunkSeq + Len(proc[p].chunks)
  /\ UNCHANGED nonPreprocessVars

\* the awaited call threw (the DELETE, the embedding, an INSERT): the catch
\* block logs and returns false / 0
ProcThrows(p) ==
  /\ proc[p].pc \in {"deleting", "adding"}
  /\ proc' = [proc EXCEPT ![p].pc = "done", ![p].result = "false"]
  /\ UNCHANGED <<store, chunkSeq>>
  /\ UNCHANGED nonPreprocessVars

\* the caller has the result
ProcReturn(p) ==
  /\ proc[p].pc = "done"
  /\ proc' = [proc EXCEPT ![p] = IdleProc]
  /\ UNCHANGED <<store, chunkSeq>>
  /\ UNCHANGED nonPreprocessVars

PreprocessNext ==
  \E p \in Procs :
    \/ \E id \in RecordIdInputs : processRecord(p, id)
    \/ \E id \in ChatIdInputs : processChatHistory(p, id)
    \/ \E id \in ProfileIdInputs : processChildProfile(p, id)
    \/ \E id \in BatchChildInputs : processRecordsBatch(p, id)
    \/ ProcDeleted(p)
    \/ ProcAdded(p)
    \/ ProcThrows(p)
    \/ ProcReturn(p)

(***************************************************************************)
(* Records: RecordsService.remove, next to the indexing of records and the *)
(* vector search                                                           *)
(***************************************************************************)
\* RecordsService.remove: findOne throws for a missing record and for a
\* record of a child of another user, and nothing is deleted then;
\* otherwise the row of the record is deleted, and only that row
removeRecord(id, userId) ==
  /\ \E rec \in recordRows :
       /\ rec.id = id
       /\ OwnsChild(userId, rec.childId)
       /\ recordRows' = recordRows \ {rec}
  /\ UNCHANGED <<proc, store, chunkSeq>>
  /\ UNCHANGED <<streamVars, contextVars, providerVars, answerVars, ageVars,
                 genVars, searchCall, batchPc, batchChunks, batchTx, batchRows,
                 batchResult>>

RecordNext ==
  \/ \E id \in RecordIdInputs : processRecord(1, id)
  \/ ProcDeleted(1)
  \/ ProcAdded(1)
  \/ ProcThrows(1)
  \/ ProcReturn(1)
  \/ \E id \in RecordIdInputs, userId \in Users : removeRecord(id, userId)
  \/ \E queryText \in Texts, childId \in {1, 2} :
       searchSimilarTextChunks(queryText, childId, SearchLimit, SearchThreshold,
                               NoFilters)
  \/ SearchQuery
  \/ SearchThrow
  \/ SearchReturn

(***************************************************************************)
(* Safety checkers: AllergyChecker and MedicalChecker                      *)
(***************************************************************************)
MaxTextLen == 2

MedicalKeywordThreshold == 2

\* the characters of the texts: "m", "k" spell an allergen, "c" a term of
\* its dictionary entry, "r" a strong medical indicator, "f" and "d" medical
\* keywords, "." is the regular-expression wildcard, "x" is neutral
Alphabet == {"m", "K", "c", ".", "f", "d", "r", "x"}

\* texts the model can answer with
ResponseInputs == UNION {[1..n -> Alphabet] : n \in 0..MaxTextLen}

\* the i flag of the regular expression: letters are compared without case
toLowerCase(c) == CASE c = "K" -> "k" [] c = "M" -> "m" [] OTHER -> c

\* allergyKeywordMap[allergen] || []
allergyKeywordMap(allergen) ==
  IF allergen = <<"m", "k">> THEN << <<"c">> >> ELSE <<>>

strongMedicalIndicators == << <<"r">> >>

\* "f" and "d" are keywords, and so is "fx", which contains the keyword "f"
\* as the source's list has both 药物 and 药物过敏
medicalKeywords == << <<"f">>, <<"d">>, <<"f", "x">> >>

\* the allergyInfo lists of the children; isNull is the absent list
AllergyInfo(items) == [isNull |-> FALSE, items |-> items]

AllergyInfoInputs ==
  { [isNull |-> TRUE, items |-> <<>>],
    AllergyInfo(<<>>),
    AllergyInfo(<< <<"m", "k">> >>),
    AllergyInfo(<< <<"m", ".">> >>),
    AllergyInfo(<< <<"c">>, <<"m", "k">> >>),
    AllergyInfo(<< <<"m", "k">>, <<"x">> >>) }

\* new RegExp(pattern, 'i') matches at offset i: a "." of the pattern stands
\* for any character
MatchesAt(text, pattern, i) ==
  /\ i + Len(pattern) <= Len(text)
  /\ \A j \in 1..Len(pattern) :
       \/ pattern[j] = "."
       \/ toLowerCase(pattern[j]) = toLowerCase(text[i + j])

\* AllergyChecker.containsAllergen: new RegExp(`${allergen}`, 'i').test(text)
containsAllergen(text, allergen) ==
  \E i \in 0..Len(text) : MatchesAt(text, allergen, i)

\* String.prototype.includes
includes(text, s) ==
  \E i \in 0..Len(text) :
    /\ i + Len(s) <= Len(text)
    /\ SubSeq(text, i + 1, i + Len(s)) = s

\* the inner loop of check: the first dictionary term found in the response
RECURSIVE FirstKeyword(_, _)
FirstKeyword(response, keywords) ==
  IF keywords = <<>> THEN <<>>
  ELSE IF containsAllergen(response, Head(keywords)) THEN <<Head(keywords)>>
  ELSE FirstKeyword(response, Tail(keywords))

\* `${allergen}(${keyword})`
Expanded(allergen, keyword) == allergen \o <<"(">> \o keyword \o <<")">>

\* the outer loop of check
RECURSIVE DetectedAllergens(_, _)
DetectedAllergens(response, items) ==
  IF items = <<>> THEN <<>>
  ELSE LET allergen == Head(items)
           found == FirstKeyword(response, allergyKeywordMap(allergen))
           first == IF containsAllergen(response, allergen) THEN <<allergen>>
                    ELSE IF found # <<>> THEN <<Expanded(allergen, found[1])>>
                    ELSE <<>>
       IN first \o DetectedAllergens(response, Tail(items))

\* AllergyChecker.check
AllergyChecker_check(response, allergyInfo) ==
  IF allergyInfo.isNull \/ Len(allergyInfo.items) = 0
    THEN [hasPotentialAllergy |-> FALSE, allergens |-> <<>>]
    ELSE LET detected == DetectedAllergens(response, allergyInfo.items)
         IN [hasPotentialAllergy |-> Len(detected) > 0, allergens |-> detected]

\* the terms of a list that occur in the response, in the order of the list
Detected(response, terms) ==
  LET Occurs(t) == includes(response, t) IN SelectSeq(terms, Occurs)

\* MedicalChecker.check with a keyword count that has to exceed the threshold
MedicalChecker_checkAboveThreshold(response) ==
  LET strong == Detected(response, strongMedicalIndicators)
      keywords == Detected(response, medicalKeywords)
  IN IF Len(strong) > 0
       THEN [containsMedicalAdvice |-> TRUE, medicalTerms |-> strong]
       ELSE [containsMedicalAdvice |-> Len(keywords) > MedicalKeywordThreshold,
             medicalTerms |-> keywords]

\* MedicalChecker.check
MedicalChecker_check(response) ==
  LET strong == Detected(response, strongMedicalIndicators)
      keywords == Detected(response, medicalKeywords)
  IN IF Len(strong) > 0
       THEN [containsMedicalAdvice |-> TRUE, medicalTerms |-> strong]
       ELSE [containsMedicalAdvice |-> Len(keywords) >= MedicalKeywordThreshold,
             medicalTerms |-> keywords]

\* Array.prototype.join
RECURSIVE join(_, _)
join(strings, sep) ==
  IF strings = <<>> THEN <<>>
  ELSE IF Len(strings) = 1 THEN strings[1]
  ELSE strings[1] \o <<sep>> \o join(Tail(strings), sep)

\* MedicalChecker.addDisclaimer
addDisclaimer(response) == response \o <<"<disclaimer>">>

\* the warning performSafetyChecks appends
AllergyWarning(allergens) ==
  <<"<allergy-warning:">> \o join(allergens, "/") \o <<">">>

\* performSafetyChecks appending the disclaimer before the allergy warning
performSafetyChecksDisclaimerFirst(response, items) ==
  LET allergyResult == AllergyChecker_check(response, AllergyInfo(items))
      medicalResult == MedicalChecker_check(response)
      disclaimed == IF medicalResult.containsMedicalAdvice
                      THEN addDisclaimer(response) ELSE response
      allergyFlag == IF allergyResult.hasPotentialAllergy
                       THEN << <<"ALLERGY:">> \o join(allergyResult.allergens, ",") >>
                       ELSE <<>>
      medicalFlag == IF medicalResult.containsMedicalAdvice
                       THEN << <<"MEDICAL:">> \o join(medicalResult.medicalTerms, ",") >>
                       ELSE <<>>
  IN [response |-> IF allergyResult.hasPotentialAllergy
                     THEN disclaimed \o AllergyWarning(allergyResult.allergens)
                     ELSE disclaimed,
      safetyFlags |-> allergyFlag \o medicalFlag]

\* AIService.performSafetyChecks
performSafetyChecks(response, items) ==
  LET allergyResult == AllergyChecker_check(response, AllergyInfo(items))
      medicalResult == MedicalChecker_check(response)
      warned == IF allergyResult.hasPotentialAllergy
                  THEN response \o AllergyWarning(allergyResult.allergens)
                  ELSE response
      allergyFlag == IF allergyResult.hasPotentialAllergy
                       THEN << <<"ALLERGY:">> \o join(allergyResult.allergens, ",") >>
                       ELSE <<>>
      medicalFlag == IF medicalResult.containsMedicalAdvice
                       THEN << <<"MEDICAL:">> \o join(medicalResult.medicalTerms, ",") >>
                       ELSE <<>>
  IN [response |-> IF medicalResult.containsMedicalAdvice
                     THEN addDisclaimer(warned) ELSE warned,
      safetyFlags |-> allergyFlag \o medicalFlag]

\* AIService.getAgeSpecificGuidance
getAgeSpecificGuidance(response, ageInMonths) ==
  response \o
    << CASE ageInMonths <= 3 -> "<0-3>"
         [] ageInMonths <= 6 -> "<4-6>"
         [] ageInMonths <= 9 -> "<7-9>"
         [] ageInMonths <= 12 -> "<10-12>"
         [] ageInMonths <= 18 -> "<13-18>"
         [] ageInMonths <= 24 -> "<19-24>"
         [] ageInMonths <= 36 -> "<25-36>"
         [] OTHER -> "<36+>" >>

NoCheck ==
  [op |-> "none", response |-> <<>>, allergyInfo |-> AllergyInfo(<<>>),
   flagged |-> FALSE, terms |-> <<>>]

(***************************************************************************)
(* Answer pipeline: AIService.chat and the completion of chatStream        *)
(***************************************************************************)
NoChild == [present |-> FALSE, id |-> 0, ageInMonths |-> 0, allergyInfo |-> <<>>]

Child(id, ageInMonths, allergyInfo) ==
  [present |-> TRUE, id |-> id, ageInMonths |-> ageInMonths,
   allergyInfo |-> allergyInfo]

\* the arguments of a chat request and the context ContextFactory.buildContext
\* returns for them: with the child, or without it when no child was given
\* or its lookup failed; recentRecords and chatHistory are given by length
AnswerInputs ==
  { [userId |-> 1, childId |-> 1,
     context |-> [child |-> Child(1, 3, << <<"m", "k">> >>),
                  recentRecords |-> 2, chatHistory |-> 0]],
    [userId |-> 1, childId |-> 1,
     context |-> [child |-> NoChild, recentRecords |-> 0, chatHistory |-> 1]],
    [userId |-> 2, childId |-> 0,
     context |-> [child |-> NoChild, recentRecords |-> 0, chatHistory |-> 0]],
    [userId |-> 2, childId |-> 2,
     context |-> [child |-> Child(2, 37, << <<"m", ".">>, <<"c">> >>),
                  recentRecords |-> 0, chatHistory |-> 1]] }

\* AIService.generateContextSummary: one entry per line of the summary
generateContextSummary(context) ==
  (IF context.child.present
     THEN <<[kind |-> "child", n |-> context.child.ageInMonths]>>
            \o (IF Len(context.child.allergyInfo) > 0
                  THEN <<[kind |-> "allergy", n |-> Len(context.child.allergyInfo)]>>
                  ELSE <<>>)
     ELSE <<>>)
    \o (IF context.recentRecords > 0
          THEN <<[kind |-> "records", n |-> context.recentRecords]>> ELSE <<>>)
    \o (IF context.chatHistory > 0
          THEN <<[kind |-> "chats", n |-> context.chatHistory]>> ELSE <<>>)

\* generateAnswer without the age-specific guidance
generateAnswerNoGuidance(context, rawResponse) ==
  LET checked == performSafetyChecks(rawResponse,
                   IF context.child.present THEN context.child.allergyInfo
                   ELSE <<>>)
  IN [response |-> checked.response, rawResponse |-> rawResponse,
      safetyFlags |-> checked.safetyFlags,
      contextSummary |-> generateContextSummary(context)]

\* AIService.generateAnswer after the model answered
generateAnswer(context, rawResponse) ==
  LET checked == performSafetyChecks(rawResponse,
                   IF context.child.present THEN context.child.allergyInfo
                   ELSE <<>>)
      finalResponse == IF context.child.present
                         THEN getAgeSpecificGuidance(checked.response,
                                                     context.child.ageInMonths)
                         ELSE checked.response
  IN [response |-> finalResponse, rawResponse |-> rawResponse,
      safetyFlags |-> checked.safetyFlags,
      contextSummary |-> generateContextSummary(context)]

\* the row prisma.chatHistory.create inserts (feedback is null, here 0)
ChatHistoryRow(id, userId, childId, userMessage, aiResponse, rawAiResponse, contextSummary, safetyFlags) ==
  [id |-> id, userId |-> userId, childId |-> childId,
   userMessage |-> userMessage, aiResponse |-> aiResponse,
   rawAiResponse |-> rawAiResponse, contextSummary |-> contextSummary,
   safetyFlags |-> safetyFlags, feedback |-> 0]

\* chat: the row it hands to createChatHistory
chatRow(id, userId, childId, message, context, rawResponse) ==
  LET answer == generateAnswer(context, rawResponse)
  IN ChatHistoryRow(id, userId, childId, message, answer.response,
                    answer.rawResponse, answer.contextSummary,
                    join(answer.safetyFlags, ","))

\* the complete handler of chatStream: the row it hands to createChatHistory
chatStreamRow(id, userId, childId, message, context, streamed) ==
  LET checked == performSafetyChecks(streamed,
                   IF context.child.present THEN context.child.allergyInfo
                   ELSE <<>>)
      finalResponse == IF context.child.present
                         THEN getAgeSpecificGuidance(checked.response,
                                                     context.child.ageInMonths)
                         ELSE checked.response
  IN ChatHistoryRow(id, userId, childId, message, finalResponse, streamed,
                    generateContextSummary(context),
                    join(checked.safetyFlags, ","))

NoAnswer ==
  [mode |-> "none", pc |-> "idle", userId |-> 0, childId |-> 0,
   context |-> [child |-> NoChild, recentRecords |-> 0, chatHistory |-> 0],
   rawResponse |-> <<>>, row |-> <<>>]

NoFeedback == [chatHistoryId |-> 0, userId |-> 0, outcome |-> "none"]

AnswerInit ==
  /\ chk = NoCheck
  /\ ans = NoAnswer
  /\ fbCall = NoFeedback
  /\ childRows = Children

\* a call of AllergyChecker.check
CheckAllergy(response, allergyInfo) ==
  /\ chk.op = "none"
  /\ ans.pc = "idle"
  /\ chatHistory = <<>>
  /\ LET result == AllergyChecker_check(response, allergyInfo)
     IN chk' = [op |-> "allergy", response |-> response,
                allergyInfo |-> allergyInfo,
                flagged |-> result.hasPotentialAllergy,
                terms |-> result.allergens]
  /\ UNCHANGED <<ans, fbCall, childRows, chatHistory, store>>
  /\ UNCHANGED nonAnswerVars

\* a call of MedicalChecker.check
CheckMedical(response) ==
  /\ chk.op = "none"
  /\ ans.pc = "idle"
  /\ chatHistory = <<>>
  /\ LET result == MedicalChecker_check(response)
     IN chk' = [op |-> "medical", response |-> response,
                allergyInfo |-> AllergyInfo(<<>>),
                flagged |-> result.containsMedicalAdvice,
                terms |-> result.medicalTerms]
  /\ UNCHANGED <<ans, fbCall, childRows, chatHistory, store>>
  /\ UNCHANGED nonAnswerVars

\* the caller has the result of the checker
CheckReturn ==
  /\ chk.op # "none"
  /\ chk' = NoCheck
  /\ UNCHANGED <<ans, fbCall, childRows, chatHistory, store>>
  /\ UNCHANGED nonAnswerVars

\* AIService.chat / chatStream up to the call of the model: the context is
\* built (ContextFactory.buildContext absorbs the failures of its readers)
AnswerStart(mode, inp) ==
  /\ ans.pc = "idle"
  /\ chatHistory = <<>>
  /\ ans' = [NoAnswer EXCEPT !.mode = mode, !.pc = "generating",
               !.userId = inp.userId, !.childId = inp.childId,
               !.context = inp.context]
  /\ chk.op = "none"
  /\ UNCHANGED <<chk, fbCall, childRows, chatHistory, store>>
  /\ UNCHANGED nonAnswerVars

\* the model answered: generateResponse returned, or the stream completed
\* with this text accumulated
AnswerGenerated(rawResponse) ==
  /\ ans.pc = "generating"
  /\ ans' = [ans EXCEPT !.pc = "finalizing", !.rawResponse = rawResponse]
  /\ UNCHANGED <<chk, fbCall, childRows, chatHistory, store>>
  /\ UNCHANGED nonAnswerVars

\* the model failed: chat throws, chatStream emits its error event
AnswerGenerationFails ==
  /\ ans.pc = "generating"
  /\ ans' = [ans EXCEPT !.pc = "failed"]
  /\ UNCHANGED <<chk, fbCall, childRows, chatHistory, store>>
  /\ UNCHANGED nonAnswerVars

\* safety checks, age guidance and createChatHistory, which returned
AnswerPersisted ==
  /\ ans.pc = "finalizing"
  /\ LET id == Len(chatHistory) + 1
         row == IF ans.mode = "sync"
                  THEN chatRow(id, ans.userId, ans.childId, 0, ans.context,
                               ans.rawResponse)
                  ELSE chatStreamRow(id, ans.userId, ans.childId, 0,
                                     ans.context, ans.rawResponse)
     IN /\ chatHistory' = Append(chatHistory, row)
        /\ ans' = [ans EXCEPT !.pc = "done", !.row = <<row>>]
  /\ UNCHANGED <<chk, fbCall, childRows, store>>
  /\ UNCHANGED nonAnswerVars

\* createChatHistory threw: chat throws, chatStream emits its error event
AnswerPersistFails ==
  /\ ans.pc = "finalizing"
  /\ ans' = [ans EXCEPT !.pc = "failed"]
  /\ UNCHANGED <<chk, fbCall, childRows, chatHistory, store>>
  /\ UNCHANGED nonAnswerVars

AnswerNext ==
  \/ \E response \in ResponseInputs, allergyInfo \in AllergyInfoInputs :
       CheckAllergy(response, allergyInfo)
  \/ \E response \in ResponseInputs : CheckMedical(response)
  \/ CheckReturn
  \/ \E mode \in {"sync", "stream"}, inp \in AnswerInputs : AnswerStart(mode, inp)
  \/ \E rawResponse \in ResponseInputs : AnswerGenerated(rawResponse)
  \/ AnswerGenerationFails
  \/ AnswerPersisted
  \/ AnswerPersistFails

(***************************************************************************)
(* Age helpers of ContextRagFactory and ContextFactory                     *)
(***************************************************************************)
\* years of the birth dates and of today
Years == {2023, 2024, 2025}

MaxAge == 62

\* a Date by what getFullYear, getMonth (0 for January) and getDate return
Date(year, month, date) == [year |-> year, month |-> month, date |-> date]

\* birth dates and values of new Date()
DateInputs ==
  {Date(y, m, d) : y \in Years, m \in {0, 4, 11}, d \in {1, 9, 28}}

AgeInputs == (0 - 2)..MaxAge

\* birthDate.toISOString().split('T')[0], as <<year, month, day>> with the
\* month counted from 1
toISODate(d) == <<d.year, d.month + 1, d.date>>

\* ContextRagFactory.calculateAgeInMonths
calculateAgeInMonthsRag(dateOfBirth, today) ==
  LET birthDateStr == toISODate(dateOfBirth)
      diff == (today.year - dateOfBirth.year) * 12
                + (today.month - dateOfBirth.month)
      months == IF today.date < dateOfBirth.date THEN diff - 1 ELSE diff
  IN IF birthDateStr = <<2023, 1, 9>> THEN 28
     ELSE IF birthDateStr = <<2024, 5, 9>> THEN 12
     ELSE IF birthDateStr = <<2025, 1, 9>> THEN 4
     ELSE IF months > 0 THEN months ELSE 0

\* ContextFactory.calculateAgeInMonths
calculateAgeInMonths(dateOfBirth, today) ==
  (today.year - dateOfBirth.year) * 12 + (today.month - dateOfBirth.month)

\* the blurbs with the upper bounds of the buckets excluded
getAgeSpecificDevelopmentInfoExclusive(ageInMonths) ==
  IF ageInMonths < 1 THEN 1
  ELSE IF ageInMonths < 3 THEN 3
  ELSE IF ageInMonths < 6 THEN 6
  ELSE IF ageInMonths < 9 THEN 9
  ELSE IF ageInMonths < 12 THEN 12
  ELSE IF ageInMonths < 18 THEN 18
  ELSE IF ageInMonths < 24 THEN 24
  ELSE IF ageInMonths < 36 THEN 36
  ELSE IF ageInMonths < 48 THEN 48
  ELSE IF ageInMonths < 60 THEN 60
  ELSE 0

\* getAgeSpecificDevelopmentInfo of both factories: the blurb, named by the
\* upper bound of its bucket (0 for the last, unbounded one)
getAgeSpecificDevelopmentInfo(ageInMonths) ==
  IF ageInMonths <= 1 THEN 1
  ELSE IF ageInMonths <= 3 THEN 3
  ELSE IF ageInMonths <= 6 THEN 6
  ELSE IF ageInMonths <= 9 THEN 9
  ELSE IF ageInMonths <= 12 THEN 12
  ELSE IF ageInMonths <= 18 THEN 18
  ELSE IF ageInMonths <= 24 THEN 24
  ELSE IF ageInMonths <= 36 THEN 36
  ELSE IF ageInMonths <= 48 THEN 48
  ELSE IF ageInMonths <= 60 THEN 60
  ELSE 0

NoAgeCall ==
  [op |-> "none", factory |-> "none", dateOfBirth |-> Date(0, 0, 0),
   today |-> Date(0, 0, 0), ageInMonths |-> 0, info |-> 0]

AgeInit == ageCall = NoAgeCall

\* buildContext of a factory computes the age of the child it found
CalculateAge(factory, dateOfBirth, today) ==
  /\ ageCall.op = "none"
  /\ ageCall' = [NoAgeCall EXCEPT
                   !.op = "age", !.factory = factory,
                   !.dateOfBirth = dateOfBirth, !.today = today,
                   !.ageInMonths =
                      IF factory = "ContextRagFactory"
                        THEN calculateAgeInMonthsRag(dateOfBirth, today)
                        ELSE calculateAgeInMonths(dateOfBirth, today)]
  /\ UNCHANGED nonAgeVars

\* formatContextToPrompt picks the blurb for the age in the context
DevelopmentInfo(ageInMonths) ==
  /\ ageCall.op = "none"
  /\ ageCall' = [NoAgeCall EXCEPT
                   !.op = "info", !.ageInMonths = ageInMonths,
                   !.info = getAgeSpecificDevelopmentInfo(ageInMonths)]
  /\ UNCHANGED nonAgeVars

\* the caller has the result of the helper
AgeReturn ==
  /\ ageCall.op # "none"
  /\ ageCall' = NoAgeCall
  /\ UNCHANGED nonAgeVars

AgeNext ==
  \/ \E factory \in {"ContextRagFactory", "ContextFactory"},
        dateOfBirth \in DateInputs, today \in DateInputs :
       CalculateAge(factory, dateOfBirth, today)
  \/ \E ageInMonths \in AgeInputs : DevelopmentInfo(ageInMonths)
  \/ AgeReturn

(***************************************************************************)
(* The streaming generator: SiliconFlowChat._streamResponseChunks          *)
(***************************************************************************)
\* data lines one response stream carries at most
MaxLines == 3

\* texts _generate can return: the complete answer of the model
GenerateTexts == {<<"a", "b">>, <<"b">>}

\* new ChatGenerationChunk({ text, ... }); fallback tells the chunk of the
\* non-streaming call from a streamed one
GenerationChunk(text, fallback) == [text |-> text, fallback |-> fallback]

NoGen ==
  [pc |-> "idle", accumulatedText |-> <<>>, lines |-> 0, yielded |-> <<>>,
   generated |-> <<>>]

GenInit == gen = NoGen

\* model.stream(messages): the generator starts and posts the request
streamResponseChunks ==
  /\ gen.pc = "idle"
  /\ gen' = [NoGen EXCEPT !.pc = "posting"]
  /\ UNCHANGED nonGenVars

\* client.post returned the response stream
PostReturns ==
  /\ gen.pc = "posting"
  /\ gen' = [gen EXCEPT !.pc = "streaming"]
  /\ UNCHANGED nonGenVars

\* one data line of the stream: extractContent yields its content, which is
\* accumulated and yielded when it is not empty
StreamLine(content) ==
  /\ gen.pc = "streaming"
  /\ gen.lines < MaxLines
  /\ gen' = IF content # <<>>
              THEN [gen EXCEPT !.lines = @ + 1,
                               !.accumulatedText = @ \o content,
                               !.yielded = Append(@, GenerationChunk(content, FALSE))]
              ELSE [gen EXCEPT !.lines = @ + 1]
  /\ UNCHANGED nonGenVars

\* the stream ended: the generator returns, or falls back to _generate when
\* accumulatedText is empty
StreamEnds ==
  /\ gen.pc = "streaming"
  /\ gen' = [gen EXCEPT !.pc = IF gen.accumulatedText = <<>>
                                  THEN "fallback" ELSE "done"]
  /\ UNCHANGED nonGenVars

\* client.post rejected, or the stream threw while it was read: the catch
\* block falls back to _generate
StreamThrows ==
  /\ gen.pc \in {"posting", "streaming"}
  /\ gen' = [gen EXCEPT !.pc = "fallback"]
  /\ UNCHANGED nonGenVars

\* _generate returned: its text is yielded as one chunk
FallbackYields(text) ==
  /\ gen.pc = "fallback"
  /\ gen' = [gen EXCEPT !.pc = "done", !.generated = text,
                         !.yielded = Append(@, GenerationChunk(text, TRUE))]
  /\ UNCHANGED nonGenVars

\* _generate threw: the generator throws
FallbackThrows ==
  /\ gen.pc = "fallback"
  /\ gen' = [gen EXCEPT !.pc = "failed"]
  /\ UNCHANGED nonGenVars

\* the consumer has seen the end (or the error) of the generator
GenReturn ==
  /\ gen.pc \in {"done", "failed"}
  /\ gen' = NoGen
  /\ UNCHANGED nonGenVars

GenNext ==
  \/ streamResponseChunks
  \/ PostReturns
  \/ \E content \in ChunkContents : StreamLine(content)
  \/ StreamEnds
  \/ StreamThrows
  \/ \E text \in GenerateTexts : FallbackYields(text)
  \/ FallbackThrows
  \/ GenReturn

(***************************************************************************)
(* Feedback and child removal: ChatHistoryService.saveFeedback,            *)
(* ChildrenService.remove                                                  *)
(***************************************************************************)
\* the chat_history table the feedback requests work on
FeedbackTable ==
  << ChatHistoryRow(1, 1, 1, 0, <<"x">>, <<"x">>, <<>>, <<>>),
     ChatHistoryRow(2, 2, 2, 0, <<"x">>, <<"x">>, <<>>, <<>>),
     ChatHistoryRow(3, 1, 0, 0, <<"x">>, <<"x">>, <<>>, <<>>) >>

\* ids and values the requests carry; chat 9 does not exist
FeedbackIdInputs == {1, 2, 9}

FeedbackValues == {1, -1}

\* ChatHistoryService.saveFeedback: findUnique, the two checks, update
saveFeedback(chatHistoryId, userId, feedback) ==
  LET found == {i \in DOMAIN chatHistory : chatHistory[i].id = chatHistoryId}
  IN /\ IF found = {}
          THEN /\ fbCall' = [chatHistoryId |-> chatHistoryId, userId |-> userId,
                             outcome |-> "notFound"]
               /\ UNCHANGED chatHistory
          ELSE LET i == CHOOSE j \in found : TRUE
               IN IF chatHistory[i].userId # userId
                    THEN /\ fbCall' = [chatHistoryId |-> chatHistoryId,
                                       userId |-> userId, outcome |-> "forbidden"]
                         /\ UNCHANGED chatHistory
                    ELSE /\ fbCall' = [chatHistoryId |-> chatHistoryId,
                                       userId |-> userId, outcome |-> "ok"]
                         /\ chatHistory' = [chatHistory EXCEPT ![i].feedback = feedback]
     /\ UNCHANGED <<chk, ans, childRows, store>>
     /\ UNCHANGED nonAnswerVars

\* ChildrenService.remove: checkOwnership, then prisma.child.delete; the
\* foreign keys of the schema delete the text chunks of the child and set
\* chat_history.child_id to NULL
removeChild(id, userId) ==
  /\ \E child \in childRows :
       /\ child.id = id
       /\ child.userId = userId
       /\ childRows' = childRows \ {child}
  /\ chatHistory' = [i \in DOMAIN chatHistory |->
                       IF chatHistory[i].childId = id
                         THEN [chatHistory[i] EXCEPT !.childId = 0]
                         ELSE chatHistory[i]]
  /\ store' = {r \in store : r.childId # id}
  /\ UNCHANGED <<chk, ans, fbCall>>
  /\ UNCHANGED nonAnswerVars

FeedbackNext ==
  \/ \E id \in FeedbackIdInputs, userId \in Users, feedback \in FeedbackValues :
       saveFeedback(id, userId, feedback)
  \/ \E id \in ChildIdInputs, userId \in Users : removeChild(id, userId)

\* the state in which feedback is given: answers have been persisted
FeedbackSpecInit ==
  /\ StreamLocalInit
  /\ chatHistory = FeedbackTable
  /\ VectorInit
  /\ ContextInit
  /\ ProviderInit
  /\ PreprocessInit
  /\ AnswerInit
  /\ AgeInit
  /\ GenInit

Init ==
  /\ StreamInit
  /\ VectorInit
  /\ ContextInit
  /\ ProviderInit
  /\ PreprocessInit
  /\ AnswerInit
  /\ AgeInit
  /\ GenInit

\* the state in which contexts are built: the chat table is filled
ContextSpecInit ==
  /\ StreamLocalInit
  /\ chatHistory = ChatTable
  /\ VectorInit
  /\ ContextInit
  /\ ProviderInit
  /\ PreprocessInit
  /\ AnswerInit
  /\ AgeInit
  /\ GenInit

Next == StreamNext

Spec == Init /\ [][Next]_vars

SearchSpec == Init /\ [][SearchNext]_vars

BatchSpec == Init /\ [][BatchNext]_vars

ContextSpec == ContextSpecInit /\ [][ContextNext]_vars

ProviderSpec == Init /\ [][ProviderNext]_vars

\* entities are processed while the chat table is filled
PreprocessSpec == ContextSpecInit /\ [][PreprocessNext]_vars

AnswerSpec == Init /\ [][AnswerNext]_vars

FeedbackSpec == FeedbackSpecInit /\ [][FeedbackNext]_vars

AgeSpec == Init /\ [][AgeNext]_vars

RecordSpec == Init /\ [][RecordNext]_vars

GenSpec == Init /\ [][GenNext]_vars

\* promises settle and the provider's HTTP calls carry a timeout, so a
\* pending step of a request is eventually taken
StreamFairness ==
  \A r \in Requests :
    /\ WF_vars(ContextBuilt(r) \/ ContextFailed(r))
    /\ WF_vars((\E c \in ChunkContents : ProviderChunk(r, c))
                 \/ ProviderComplete(r) \/ ProviderError(r))
    /\ WF_vars(PersistOk(r) \/ PersistFail(r))

FairSpec == Spec /\ StreamFairness

(***************************************************************************)
(* Context assembler: claims                                               *)
(***************************************************************************)

\* C7 (as stated): when the profile lookup or the vector search threw, the
\* returned context has vectorSearchResults undefined, relevantRecords equal
\* to all records of the child and relevantChatHistory equal to the user's
\* last 5 chats filtered to the child.
C7_FallbackPopulated ==
  ctxPc = "returned" /\ (ctxTrace.profile = "threw" \/ ctxTrace.search = "threw") =>
    /\ ~ctx.vectorSearchResults.defined
    /\ ctx.relevantRecords = AllRecordsOfChild(ctxArgs.childId)
    /\ ctx.relevantChatHistory = FallbackChats(ctxArgs.userId, ctxArgs.childId)

\* C7 (amended): when the profile lookup or the vector search threw, the
\* call still returns, vectorSearchResults is undefined, and each of
\* relevantRecords / relevantChatHistory holds the unscored fallback rows if
\* its fallback reader returned and is empty if that reader threw; the
\* records reader always throws for a child the user does not own.
C7_FallbackPopulatedWhereReadable ==
  ctxPc = "returned" /\ (ctxTrace.profile = "threw" \/ ctxTrace.search = "threw") =>
    /\ ~ctx.vectorSearchResults.defined
    /\ ctx.relevantRecords =
         IF ctxTrace.fbRecords = "ok" THEN AllRecordsOfChild(ctxArgs.childId) ELSE <<>>
    /\ ctx.relevantChatHistory =
         IF ctxTrace.fbChats = "ok"
           THEN FallbackChats(ctxArgs.userId, ctxArgs.childId) ELSE <<>>
    /\ (~OwnsChild(ctxArgs.userId, ctxArgs.childId) => ctx.relevantRecords = <<>>)

C7_Witness ==
  /\ ctxPc = "returned"
  /\ ctxTrace.search = "threw"
  /\ ctxTrace.fbRecords = "ok"
  /\ Len(ctx.relevantRecords) = 2
  /\ Len(ctx.relevantChatHistory) = 3

\* C8: in a returned context vectorSearchResults is the empty list only when
\* a vector search ran and found nothing; when no search ran or a step of
\* the vector path threw, it is undefined.
C8_EmptyListOnlyAfterEmptySearch ==
  ctxPc = "returned" =>
    /\ (ctx.vectorSearchResults.defined /\ ctx.vectorSearchResults.items = <<>>
          => ctxTrace.search = "ok" /\ ctxHits = <<>>)
    /\ (ctxTrace.search # "ok" \/ ctxTrace.hydrate = "threw"
          => ~ctx.vectorSearchResults.defined)

(***************************************************************************)
(* Vector store: claims                                                    *)
(***************************************************************************)

\* C9: every row a search returns belongs to the requested childId and has
\* a similarity of at least the threshold, whatever the filters.
C9_SearchScopedAndAboveThreshold ==
  searchCall.status = "ok" =>
    \A i \in 1..Len(searchCall.rows) :
      /\ searchCall.rows[i].childId = searchCall.childId
      /\ searchCall.rows[i].similarity >= searchCall.threshold

\* C10: when addTextChunks has returned, either it succeeded and every chunk
\* of the batch is a committed row, or it failed and no row of the batch is;
\* before that no row of the batch is visible.
C10_BatchAllOrNothing ==
  /\ batchPc = "returned" /\ batchResult = "ok" =>
        /\ Cardinality(batchRows) = Len(batchChunks)
        /\ batchRows \subseteq store
        /\ \A i \in 1..Len(batchChunks) :
              \E row \in batchRows : row.content = batchChunks[i].content
                                        /\ row.sourceId = batchChunks[i].sourceId
  /\ batchPc = "returned" /\ batchResult = "error" => batchRows \cap store = {}
  /\ batchPc \in {"embedding", "transaction"} => batchRows \cap store = {}

C10_Witness ==
  /\ batchPc = "returned"
  /\ batchResult = "error"
  /\ Len(batchChunks) = 2
  /\ Cardinality(batchRows) = 1
  /\ store # {}

(***************************************************************************)
(* Helpers of the properties                                               *)
(***************************************************************************)
TerminalEvents(s) == SelectSeq(s, IsTerminal)

IsContent(ev) == ev.type = "content"

IsDone(ev) == ev.type = "done"

NonEmptyChunk(c) == c # <<>>

\* the contents of the content events of s, in order
ContentsOf(s) ==
  LET sel == SelectSeq(s, IsContent) IN [i \in 1..Len(sel) |-> sel[i].content]

RECURSIVE Concat(_)
Concat(s) == IF s = <<>> THEN <<>> ELSE Head(s) \o Concat(Tail(s))

IsPrefix(s, t) == Len(s) <= Len(t) /\ s = SubSeq(t, 1, Len(s))

RowsOf(r) == {i \in 1..Len(chatHistory) : chatHistory[i].userMessage = r}

LastEvent(r) == emitted[r][Len(emitted[r])]

\* the positions of a buildContext call
ContextPositions ==
  {"idle", "findChild", "search", "hydrateRecords", "hydrateChats",
   "fbRecords", "fbChats", "findAll", "recentChats", "returned"}

\* C25: whichever of its lookups throw (profile, vector search, a record or
\* chat of a hit, the fallback readers), a buildContext call does not reject:
\* it stays on its path to the return statement, and it ends in no other way
\* than by returning its context.
C25_BuildContextNeverRejects ==
  /\ [](ctxPc \in ContextPositions)
  /\ [][/\ ctxPc' = "idle" => ctxPc \in {"idle", "returned"}
        /\ ctxPc' = "returned" => ctx'.child \in {0, ctxArgs.childId}]_vars

\* a context was returned although a lookup of a hit and then both fallback
\* readers threw
C25_Witness ==
  /\ ctxPc = "returned"
  /\ ctxTrace.hydrate = "threw"
  /\ ctxTrace.fbRecords = "threw"
  /\ ctxTrace.fbChats = "threw"

(***************************************************************************)
(* Streaming orchestrator: claims                                          *)
(***************************************************************************)

\* C1: every started streaming request emits exactly one terminal event
\* (done or error) and no event after it, on every path.
C1_ExactlyOneTerminal ==
  /\ [](\A r \in Requests :
          /\ Len(TerminalEvents(emitted[r])) <= 1
          /\ (TerminalEvents(emitted[r]) # <<>> => IsTerminal(LastEvent(r))))
  /\ \A r \in Requests :
        (pc[r] # "idle") ~> (Len(TerminalEvents(emitted[r])) = 1)

C1_Witness ==
  \E r \in Requests : pc[r] = "ERROR" /\ emitted[r] = <<ErrorEvent("context")>>

\* C2: once the caller has disconnected, no further provider chunk is
\* consumed or accumulated for that request.
C2_NoTokenAfterDisconnect ==
  [][\A r \in Requests :
       closedAt[r] # "none" =>
         /\ modelChunks'[r] = modelChunks[r]
         /\ fullResponse'[r] = fullResponse[r]]_vars

\* C3: no ChatHistory row exists for a request whose caller disconnected
\* before the provider stream had completed.
C3_NoRowAfterCancel ==
  \A i \in 1..Len(chatHistory) :
    closedAt[chatHistory[i].userMessage] \notin {"BUILDING_CONTEXT", "STREAMING_TOKENS"}

\* C4: a request that failed (context build, provider stream, persistence)
\* ends with an error event and never with done, and has no ChatHistory row.
C4_FailureEndsWithError ==
  \A r \in Requests :
    pc[r] = "ERROR" =>
      /\ emitted[r] # <<>>
      /\ LastEvent(r).type = "error"
      /\ SelectSeq(emitted[r], IsDone) = <<>>
      /\ RowsOf(r) = {}

C4_Witness ==
  \E r \in Requests :
    /\ pc[r] = "ERROR"
    /\ Len(emitted[r]) > 1
    /\ LastEvent(r) = ErrorEvent("stream")

\* C5: a row is written only after the provider stream has completed, at
\* most once per request, and done is emitted only after the write and
\* carries the id of the written row.
C5_PersistAfterStreamThenDone ==
  \A r \in Requests :
    /\ Cardinality(RowsOf(r)) <= 1
    /\ \A i \in RowsOf(r) :
          /\ pc[r] = "DONE"
          /\ ~streamSub[r]
          /\ chatHistory[i].rawAiResponse = Concat(ContentsOf(emitted[r]))
          /\ LastEvent(r) = DoneEvent(chatHistory[i].id)
    /\ \A k \in 1..Len(emitted[r]) :
          IsDone(emitted[r][k]) =>
            \E i \in RowsOf(r) : chatHistory[i].id = emitted[r][k].chatId

C5_Witness ==
  \E r \in Requests :
    /\ pc[r] = "DONE"
    /\ Len(ContentsOf(emitted[r])) = 2
    /\ \E i \in RowsOf(r) : chatHistory[i].id = 2

\* C6: the content events are exactly the provider's tokens, each once and
\* in emission order; the accumulator is their concatenation; the caller
\* receives them all while connected, and a prefix of them otherwise.
C6_TokensInOrder ==
  \A r \in Requests :
    /\ ContentsOf(emitted[r]) = SelectSeq(modelChunks[r], NonEmptyChunk)
    /\ fullResponse[r] = Concat(SelectSeq(modelChunks[r], NonEmptyChunk))
    /\ IsPrefix(delivered[r], emitted[r])
    /\ (closedAt[r] = "none" => delivered[r] = emitted[r])

C6_Witness ==
  \E r \in Requests :
    /\ modelChunks[r] = << <<"a">>, <<"b">> >>
    /\ closedAt[r] = "none"
    /\ Len(delivered[r]) = 2

\* the state chatStream and the controller keep for request q
LocalState(q) ==
  <<pc[q], modelChunks[q], fullResponse[q], emitted[q], subjectStopped[q],
    ctrlSub[q], streamSub[q], delivered[q], resEnded[q], closedAt[q]>>

\* C24: a step of one streaming request leaves the events, the accumulated
\* text and the position of every other request as they were, and the only
\* row it can add to chat_history carries its own user, child and message
\* and the text accumulated from its own provider chunks; rows already
\* written stay as they are.
C24_RequestsShareNoState ==
  [][\E r \in Requests :
       /\ \A q \in Requests \ {r} : LocalState(q)' = LocalState(q)
       /\ \/ chatHistory' = chatHistory
          \/ chatHistory' =
               Append(chatHistory,
                      [id |-> Len(chatHistory) + 1,
                       userId |-> RequestArgs[r].userId,
                       childId |-> RequestArgs[r].childId,
                       userMessage |-> r,
                       rawAiResponse |->
                         Concat(SelectSeq(modelChunks[r], NonEmptyChunk))])]_vars

\* both requests are streaming and each has accumulated a chunk of its own
C24_Witness ==
  /\ pc[1] = "STREAMING_TOKENS"
  /\ pc[2] = "STREAMING_TOKENS"
  /\ fullResponse[1] = <<"a">>
  /\ fullResponse[2] = <<"b">>

(***************************************************************************)
(* Provider clients: claims                                                *)
(***************************************************************************)
\* the failures the specification classifies as retryable
Retryable(kind) == kind \in {"timeout", "http500", "http429"}

\* requests of the embedding call that are waiting for the provider
InFlight == {k \in DOMAIN embReq : embReq[k].state = "inFlight"}

Finished(k) == embReq[k].state \in {"resolved", "rejected"}

GroupOf(k) == (k - 1) \div BatchSize

\* C11: a provider call is retried only after a failure classified as
\* retryable (timeout, HTTP 5xx, HTTP 429): a call that waits for its next
\* attempt, in either client, has failed with a retryable failure.
C11_RetryOnlyWhenRetryable ==
  /\ \A k \in DOMAIN embReq :
       embReq[k].state = "backoff" => Retryable(embReq[k].lastError)
  /\ apiCall.state = "backoff" => Retryable(apiCall.error)

\* C12: one embedding call makes at most MaxRetries + 1 attempts; it resolves
\* with the first successful attempt and makes none after it; it rejects
\* after MaxRetries + 1 failed attempts, with the error of the last one.
C12_BoundedAttempts ==
  /\ \A k \in DOMAIN embReq :
       LET q == embReq[k]
       IN /\ q.attempts <= MaxRetries + 1
          /\ q.state \in {"inFlight", "resolved"} => q.attempts = q.retryCount + 1
          /\ q.state = "resolved" => q.value = Vec(embCall.texts[k], q.value.dim)
          /\ q.state = "backoff" => q.attempts = q.retryCount
          /\ (q.state = "rejected" /\ q.lastError # "emptyInput") =>
               /\ q.attempts = MaxRetries + 1
               /\ q.retryCount = MaxRetries + 1
  /\ (embCall.kind = "single" /\ embCall.status = "returned") =>
       /\ embReq[1].state = "resolved"
       /\ embCall.embeddings = <<embReq[1].value>>
  /\ (embCall.kind = "single" /\ embCall.status = "thrown"
        /\ embCall.error # "emptyInput") =>
       /\ embReq[1].state = "rejected"
       /\ embCall.error = embReq[1].lastError

\* a call failed after its first attempt and all its retries failed
C12_Witness ==
  /\ embCall.kind = "single"
  /\ embCall.status = "thrown"
  /\ embReq # <<>>
  /\ embReq[1].attempts = MaxRetries + 1
  /\ embReq[1].retryCount = MaxRetries + 1

\* C13: the texts of a batch call are embedded in consecutive groups of
\* BatchSize; a request of a later group is started only when every request
\* of the earlier groups has finished, so at most BatchSize requests of the
\* call wait for the provider at any time.
C13_GroupsRunSequentially ==
  embCall.kind = "batch" =>
    /\ Cardinality(InFlight) <= BatchSize
    /\ \A k \in DOMAIN embReq :
         embReq[k].state # "notStarted" =>
           \A j \in DOMAIN embReq : GroupOf(j) < GroupOf(k) => Finished(j)
    /\ embCall.status = "returned" =>
         embCall.embeddings = [k \in DOMAIN embReq |-> embReq[k].value]

\* the second group of a batch call is waiting for the provider
C13_Witness ==
  /\ embCall.kind = "batch"
  /\ \E k \in DOMAIN embReq : GroupOf(k) = 1 /\ embReq[k].state = "inFlight"

\* C18: for every non-empty text the vector generateEmbedding returns has the
\* configured length EmbeddingDimensions.
C18_EmbeddingHasConfiguredDimension ==
  (embCall.kind = "single" /\ embCall.status = "returned") =>
    \A j \in DOMAIN embCall.embeddings :
      embCall.embeddings[j].dim = EmbeddingDimensions

\* C19: generateEmbedding of an empty or whitespace-only text and
\* generateEmbeddings of an empty array fail with the input error, and no
\* request was sent to the provider.
C19_ValidationBeforeWork ==
  ((embCall.kind = "single" /\ IsBlank(embCall.texts[1]))
     \/ (embCall.kind = "batch" /\ embCall.texts = <<>>)) =>
    /\ embCall.status = "thrown"
    /\ embCall.error = "emptyInput"
    /\ embCall.embeddings = <<>>
    /\ \A k \in DOMAIN embReq : embReq[k].attempts = 0

\* a whitespace-only text was rejected
C19_Witness ==
  /\ embCall.kind = "single"
  /\ embCall.texts = << <<" ">> >>
  /\ embCall.status = "thrown"

(***************************************************************************)
(* Preprocessing: claims                                                   *)
(***************************************************************************)
\* the rows stored for the sources a call works on
RowsOfSources(q) ==
  {r \in store : r.sourceType = q.sourceType /\ r.sourceId \in q.sourceIds}

\* C14: when a call that processed a source entity has succeeded, and no
\* other call ran meanwhile, the chunks stored for its sources are exactly
\* the ones it generated, whichever entry point it is.
C14_ReprocessingReplacesChunks ==
  \A p \in Procs :
    (proc[p].pc = "done" /\ proc[p].result = "true" /\ proc[p].alone) =>
      /\ RowsOfSources(proc[p]) = proc[p].inserted
      /\ Cardinality(RowsOfSources(proc[p])) = Len(proc[p].chunks)

(***************************************************************************)
(* Safety checkers and answer pipeline: claims                             *)
(***************************************************************************)
\* s occurs in text as a substring, letters compared without case
IncludesIgnoringCase(text, s) ==
  \E i \in 0..Len(text) :
    /\ i + Len(s) <= Len(text)
    /\ \A j \in 1..Len(s) : toLowerCase(s[j]) = toLowerCase(text[i + j])

RECURSIVE FirstTermIncluded(_, _)
FirstTermIncluded(text, terms) ==
  IF terms = <<>> THEN <<>>
  ELSE IF IncludesIgnoringCase(text, Head(terms)) THEN <<Head(terms)>>
  ELSE FirstTermIncluded(text, Tail(terms))

\* what the allergens of a list are reported as when matching is substring
\* matching
RECURSIVE ExpectedAllergens(_, _)
ExpectedAllergens(text, items) ==
  IF items = <<>> THEN <<>>
  ELSE LET allergen == Head(items)
           term == FirstTermIncluded(text, allergyKeywordMap(allergen))
           first == IF IncludesIgnoringCase(text, allergen) THEN <<allergen>>
                    ELSE IF term # <<>> THEN <<Expanded(allergen, term[1])>>
                    ELSE <<>>
       IN first \o ExpectedAllergens(text, Tail(items))

\* the allergy list of the child in the context of the answer
AllergyInfoOf(context) ==
  IF context.child.present THEN context.child.allergyInfo ELSE <<>>

\* C15: the row the completing chatStream persists has the raw text as
\* rawAiResponse and, as aiResponse, the raw text followed by the allergy
\* warning iff the allergy checker flags the raw text, the medical disclaimer
\* iff the medical checker flags the raw text, and the age guidance iff the
\* context holds a child, in this order; safetyFlags has the ALLERGY tag and
\* the MEDICAL tag under the same conditions.
C15_FinalizingComposesSuffixes ==
  (ans.mode = "stream" /\ ans.pc = "done") =>
    LET row == ans.row[1]
        raw == ans.rawResponse
        allergy == AllergyChecker_check(raw, AllergyInfo(AllergyInfoOf(ans.context)))
        medical == MedicalChecker_check(raw)
        warning == IF allergy.hasPotentialAllergy
                     THEN AllergyWarning(allergy.allergens) ELSE <<>>
        disclaimer == IF medical.containsMedicalAdvice
                        THEN addDisclaimer(<<>>) ELSE <<>>
        guidance == IF ans.context.child.present
                      THEN getAgeSpecificGuidance(<<>>, ans.context.child.ageInMonths)
                      ELSE <<>>
    IN /\ row.rawAiResponse = raw
       /\ row.aiResponse = raw \o warning \o disclaimer \o guidance
       /\ includes(row.safetyFlags, <<"ALLERGY:">>) <=> allergy.hasPotentialAllergy
       /\ includes(row.safetyFlags, <<"MEDICAL:">>) <=> medical.containsMedicalAdvice
       /\ chatHistory = <<row>>

\* a streamed answer that both checkers flag, for a child, was persisted
C15_Witness ==
  /\ ans.mode = "stream"
  /\ ans.pc = "done"
  /\ ans.context.child.present
  /\ includes(ans.row[1].safetyFlags, <<"ALLERGY:">>)
  /\ includes(ans.row[1].safetyFlags, <<"MEDICAL:">>)

\* C16: for the same user, child, message, context and model output, chat
\* persists the row chatStream persists (aiResponse, rawAiResponse,
\* contextSummary, safetyFlags), after generation and safety filtering; when
\* it fails nothing is persisted.
C16_ChatEquivalentToChatStream ==
  /\ (ans.mode = "sync" /\ ans.pc = "done") =>
       /\ ans.row[1] = chatStreamRow(1, ans.userId, ans.childId, 0, ans.context,
                                     ans.rawResponse)
       /\ chatHistory = ans.row
  /\ (ans.mode = "stream" /\ ans.pc = "done") =>
       ans.row[1] = chatRow(1, ans.userId, ans.childId, 0, ans.context,
                            ans.rawResponse)
  /\ (ans.mode = "sync" /\ ans.pc # "done") => chatHistory = <<>>

\* chat persisted a flagged answer for a child
C16_Witness ==
  /\ ans.mode = "sync"
  /\ ans.pc = "done"
  /\ ans.context.child.present
  /\ ans.row[1].safetyFlags # <<>>

\* C20: AllergyChecker.check flags the text iff an allergen of the list
\* matches; an allergen is reported as itself when it occurs in the text as a
\* substring, letters compared without case, and otherwise as
\* "<allergen>(<term>)" for the first term of its dictionary entry that does;
\* an empty or absent list yields no match.
C20_AllergensMatchAsSubstrings ==
  chk.op = "allergy" =>
    LET expected == IF chk.allergyInfo.isNull THEN <<>>
                    ELSE ExpectedAllergens(chk.response, chk.allergyInfo.items)
    IN /\ chk.flagged = (Len(expected) > 0)
       /\ chk.terms = expected

(***************************************************************************)
(* Feedback: claims                                                        *)
(***************************************************************************)
\* C17: once a chat_history row exists, a step changes no field of it but
\* feedback, and changes feedback only by a saveFeedback request of the user
\* who owns the row; a saveFeedback request that fails (unknown id, row of
\* another user) changes no row.
C17_OnlyFeedbackChanges ==
  [][/\ Len(chatHistory') >= Len(chatHistory)
     /\ \A i \in DOMAIN chatHistory :
          /\ [chatHistory'[i] EXCEPT !.feedback = chatHistory[i].feedback]
               = chatHistory[i]
          /\ chatHistory'[i].feedback # chatHistory[i].feedback =>
               /\ fbCall'.outcome = "ok"
               /\ fbCall'.chatHistoryId = chatHistory[i].id
               /\ fbCall'.userId = chatHistory[i].userId
     /\ (fbCall' # fbCall /\ fbCall'.outcome # "ok") =>
          chatHistory' = chatHistory]_vars

(***************************************************************************)
(* Medical checker: claims                                                 *)
(***************************************************************************)
\* the terms of a list that occur in the text, as a set
TermsIn(text, terms) ==
  {terms[i] : i \in {j \in 1..Len(terms) : includes(text, terms[j])}}

\* C21: MedicalChecker.check answers containsMedicalAdvice = true iff the
\* text contains a strong indicator or at least two distinct medical
\* keywords; several occurrences of one keyword count once.
C21_MedicalAdviceIffStrongOrTwoKeywords ==
  chk.op = "medical" =>
    (chk.flagged <=>
       \/ TermsIn(chk.response, strongMedicalIndicators) # {}
       \/ Cardinality(TermsIn(chk.response, medicalKeywords)) >= 2)

\* a text without a strong indicator is flagged for its two keywords
C21_Witness ==
  /\ chk.op = "medical"
  /\ TermsIn(chk.response, strongMedicalIndicators) = {}
  /\ chk.flagged
  /\ Len(chk.terms) = 2

(***************************************************************************)
(* Age helpers: claims                                                     *)
(***************************************************************************)
\* C22: the age a factory places in the context is
\* (today.year - birth.year) * 12 + (today.month - birth.month), less one
\* when today's day of the month is before the birth day, and at least 0.
C22_AgeInMonthsFormula ==
  ageCall.op = "age" =>
    LET b == ageCall.dateOfBirth
        t == ageCall.today
        months == (t.year - b.year) * 12 + (t.month - b.month)
                    - (IF t.date < b.date THEN 1 ELSE 0)
    IN ageCall.ageInMonths = IF months < 0 THEN 0 ELSE months

\* the upper bounds of the buckets
BucketBounds == {1, 3, 6, 9, 12, 18, 24, 36, 48, 60}

\* C23: the blurb is the one of the least bucket whose upper bound is at
\* least the age, and the last blurb when the age is above every bound.
C23_FirstBucketWithBoundAtLeastAge ==
  ageCall.op = "info" =>
    LET fitting == {b \in BucketBounds : b >= ageCall.ageInMonths}
    IN IF fitting = {} THEN ageCall.info = 0
       ELSE /\ ageCall.info \in fitting
            /\ \A b \in fitting : ageCall.info <= b

\* an age on the upper bound of its bucket got the blurb of that bucket
C23_Witness ==
  /\ ageCall.op = "info"
  /\ ageCall.ageInMonths = 9
  /\ ageCall.info = 9

(***************************************************************************)
(* Records: claims                                                         *)
(***************************************************************************)
\* the record a chunk or a hit refers to exists
RecordExists(sourceId) == \E rec \in recordRows : rec.id = sourceId

\* C26: while no record is being indexed, every chunk of sourceType record
\* in text_chunks refers to a row of the records table, and so does every
\* hit a vector search has returned: removing a record leaves no chunk of it.
C26_NoChunkOfRemovedRecord ==
  (\A p \in Procs : proc[p].pc = "idle") =>
    /\ \A row \in store : row.sourceType = "record" => RecordExists(row.sourceId)
    /\ searchCall.status = "ok" =>
         \A i \in 1..Len(searchCall.rows) :
           searchCall.rows[i].sourceType = "record" =>
             RecordExists(searchCall.rows[i].sourceId)

(***************************************************************************)
(* Preprocessing under concurrency and failure: claims                     *)
(***************************************************************************)
\* the rows of text_chunks of one source
ChunksOf(sourceType, sourceId) ==
  {row \in store : row.sourceType = sourceType /\ row.sourceId = sourceId}

\* C27: when two processRecord calls for the same record have both returned
\* true, however their steps interleaved, text_chunks holds exactly one
\* chunk of that record.
C27_ConcurrentProcessRecordOneChunk ==
  \A id \in RecordIdInputs :
    (\A p \in Procs : /\ proc[p].op = "record"
                       /\ proc[p].pc = "done"
                       /\ proc[p].result = "true"
                       /\ proc[p].sourceIds = {id})
      => Cardinality(ChunksOf("record", id)) = 1

\* C28: when processChildProfile, processRecord or processChatHistory has
\* returned false, and no other call ran meanwhile, the call has removed
\* none of the chunks that were stored for its source.
C28_FailedProcessingKeepsChunks ==
  \A p \in Procs :
    (/\ proc[p].op \in {"record", "chat", "profile"}
     /\ proc[p].pc = "done"
     /\ proc[p].result = "false"
     /\ proc[p].alone)
      => proc[p].deleted = 0

(***************************************************************************)
(* Context assembler, ownership: claims                                    *)
(***************************************************************************)
\* the chat with this id is a chat of the user
OwnsChat(userId, id) ==
  \E i \in 1..Len(chatHistory) :
    chatHistory[i].id = id /\ chatHistory[i].userId = userId

\* C29: every record in the context buildContext returns to a user is a
\* record of a child of that user, and every chat-history entry is a chat of
\* that user, whatever chunks text_chunks holds.
C29_ContextHoldsOnlyOwnRows ==
  ctxPc = "returned" =>
    /\ \A i \in 1..Len(ctx.relevantRecords) :
         CanReadRecord(ctxArgs.userId, ctx.relevantRecords[i].source)
    /\ \A i \in 1..Len(ctx.relevantChatHistory) :
         OwnsChat(ctxArgs.userId, ctx.relevantChatHistory[i].source)
    /\ \A i \in 1..Len(ctx.recentChats) :
         OwnsChat(ctxArgs.userId, ctx.recentChats[i].source)

(***************************************************************************)
(* Streaming generator: claims                                             *)
(***************************************************************************)
\* C30: the chunk of the non-streaming fallback is yielded only as the first
\* chunk of a call, so the chunks of a call that ended concatenate to one
\* answer: the streamed text, or the text _generate returned.
C30_FallbackOnlyWhenNothingStreamed ==
  /\ \A i \in 1..Len(gen.yielded) : gen.yielded[i].fallback => i = 1
  /\ gen.pc = "done" =>
       LET texts == [i \in 1..Len(gen.yielded) |-> gen.yielded[i].text]
       IN Concat(texts) \in {gen.accumulatedText, gen.generated}

====
